---- MODULE Spec2Model ----
(***************************************************************************)
(* Temperature control of a stirred bioreactor: the PID controller and the *)
(* Bioreaktor process model of Projekt9.py and Testprojekt.py.             *)
(*                                                                         *)
(* Numbers.  The controller is modelled in exact rational arithmetic: a    *)
(* number is a pair <<n, d>> with d > 0 in lowest terms.  The reactor is   *)
(* modelled in fixed point, every quantity an integer multiple of a unit   *)
(* that is named where the quantity is introduced.                         *)
(***************************************************************************)
EXTENDS Integers, Sequences, FiniteSets, TLC

VARIABLES
    pid,        \* the PID object
    pidLast,    \* the last call on it: its arguments, locals and result
    pidCalls,   \* the number of calls made on it
    satN,       \* the current streak of saturated run calls
    satPrev,    \* satN before the last call
    rk,         \* the Bioreaktor object
    rkLast,     \* the last call on it: its arguments, locals and result
    rkCalls,    \* the number of calls made on it
    coolprop    \* what the installed CoolProp does where its behaviour is open

pidVars == <<pid, pidLast, pidCalls, satN, satPrev>>
rkVars == <<rk, rkLast, rkCalls, coolprop>>
vars == <<pid, pidLast, pidCalls, satN, satPrev, rk, rkLast, rkCalls, coolprop>>

(***************************************************************************)
(* Exact rational arithmetic (Python floats read as real numbers).         *)
(***************************************************************************)
Abs(x) == IF x < 0 THEN -x ELSE x

RECURSIVE GCD(_, _)
GCD(a, b) == IF b = 0 THEN a ELSE GCD(b, a % b)

Norm(n, d) ==
    IF n = 0 THEN <<0, 1>>
    ELSE LET g == GCD(Abs(n), d) IN <<n \div g, d \div g>>

R(n) == <<n, 1>>
Q(n, d) == Norm(n, d)

RNeg(a) == <<-a[1], a[2]>>

RAdd(a, b) ==
    LET g == GCD(a[2], b[2])
    IN  Norm(a[1] * (b[2] \div g) + b[1] * (a[2] \div g), (a[2] \div g) * b[2])

RSub(a, b) == RAdd(a, RNeg(b))

RMul(a, b) ==
    IF a[1] = 0 \/ b[1] = 0 THEN <<0, 1>>
    ELSE LET g1 == GCD(Abs(a[1]), b[2])
             g2 == GCD(Abs(b[1]), a[2])
         IN  <<(a[1] \div g1) * (b[1] \div g2), (a[2] \div g2) * (b[2] \div g1)>>

\* a / b for b # 0
RDiv(a, b) ==
    IF b[1] > 0 THEN RMul(a, <<b[2], b[1]>>) ELSE RMul(a, <<-b[2], -b[1]>>)

RLt(a, b) == a[1] * b[2] < b[1] * a[2]
RLe(a, b) == a[1] * b[2] <= b[1] * a[2]
RAbs(a) == <<Abs(a[1]), a[2]>>

\* Python's builtin max(a, b) and min(a, b) on two numbers
py_max(a, b) == IF RLt(a, b) THEN b ELSE a
py_min(a, b) == IF RLt(b, a) THEN b ELSE a

\* numpy.clip(x, lo, hi) = minimum(maximum(x, lo), hi)
np_clip(x, lo, hi) == py_min(py_max(x, lo), hi)

\* the literal 1e-6 of the anti-windup divisor
EPS == Q(1, 10^6)

(***************************************************************************)
(* Fixed-point arithmetic of the reactor model.  Quotients are truncated   *)
(* toward zero.  The recursive helpers are functions of integers, so each  *)
(* argument is a number when the body is evaluated.                        *)
(***************************************************************************)
Sign(x) == IF x < 0 THEN -1 ELSE IF x > 0 THEN 1 ELSE 0
MaxOf[a \in Int, b \in Int] == IF a < b THEN b ELSE a
MinOf[a \in Int, b \in Int] == IF b < a THEN b ELSE a
\* the builtins max and min on fixed-point numbers
Max2(a, b) == MaxOf[a, b]
Min2(a, b) == MinOf[a, b]

\* one doubling step of MulDivQR: from <<q, r>> for b \div 2 to <<q, r>> for b
QRStep[h \in Nat \X Nat, a \in Nat, b \in Nat, c \in Nat] ==
    LET r == 2 * h[2] + (b % 2) * (a % c)
    IN  <<2 * h[1] + (b % 2) * (a \div c) + (r \div c), r % c>>

\* <<q, r>> with a*b = q*c + r and 0 <= r < c, for a, b >= 0 and c > 0; the
\* product itself is never formed
MulDivQR[a \in Nat, b \in Nat, c \in Nat] ==
    IF b = 0 THEN <<0, 0>> ELSE QRStep[MulDivQR[a, b \div 2, c], a, b, c]

\* the largest integer of the checker's 32-bit arithmetic
MaxInt == 2^30 + (2^30 - 1)

MulDivInt[a \in Int, b \in Int, c \in Int] ==
    IF a = 0 \/ b = 0 \/ c = 0 THEN 0
    ELSE IF Abs(a) <= MaxInt \div Abs(b)
    THEN Sign(a) * Sign(b) * Sign(c) * ((Abs(a) * Abs(b)) \div Abs(c))
    ELSE Sign(a) * Sign(b) * Sign(c) * MulDivQR[Abs(a), Abs(b), Abs(c)][1]

\* a*b/c truncated toward zero, for c # 0
MulDiv(a, b, c) == MulDivInt[a, b, c]

\* the largest r in lo..hi with r*r <= n
ISqrtIn[n \in Nat, lo \in Nat, hi \in Nat] ==
    IF lo >= hi THEN lo
    ELSE LET mid == (lo + hi + 1) \div 2
         IN  IF mid * mid <= n THEN ISqrtIn[n, mid, hi] ELSE ISqrtIn[n, lo, mid - 1]

ISqrt(n) == ISqrtIn[n, 0, 46340]

\* the largest r in lo..hi with r*r*r <= n
ICbrtIn[n \in Nat, lo \in Nat, hi \in Nat] ==
    IF lo >= hi THEN lo
    ELSE LET mid == (lo + hi + 1) \div 2
         IN  IF mid * mid * mid <= n THEN ICbrtIn[n, mid, hi] ELSE ICbrtIn[n, lo, mid - 1]

ICbrt(n) == ICbrtIn[n, 0, 1290]

\* Python's x ** e for a fractional exponent 0 < e < 1.  Values are multiples
\* of 1/FP; the exponent num/den is expanded into PowBits binary digits and
\* the power is the product of the repeated square roots the digits select.
FP == 2^10
SqrtFP == 2^5
PowBits == 12

FPSqrt[y \in Nat] == IF y < 2^21 THEN ISqrt(y * FP) ELSE ISqrt(y) * SqrtFP

PowFrom[root \in Nat, num \in Nat, den \in Nat, i \in Nat] ==
    IF i > PowBits THEN FP
    ELSE IF (2 * num) \div den = 1
    THEN MulDiv(root, PowFrom[FPSqrt[root], (2 * num) % den, den, i + 1], FP)
    ELSE PowFrom[FPSqrt[root], (2 * num) % den, den, i + 1]

PowOf[x \in Nat, num \in Nat, den \in Nat] ==
    IF x = 0 THEN 0 ELSE PowFrom[FPSqrt[x], num, den, 1]

\* x ** (num/den) for x a multiple of 1/FP, as a multiple of 1/FP
Pow(x, num, den) == PowOf[x, num, den]

(***************************************************************************)
(* PID controller, Projekt9.py.  A controller object is a record of the    *)
(* attributes set by __init__.                                             *)
(***************************************************************************)
P9_PID_init(kp, ki, kd, dt, output_min, output_max) ==
    [cls |-> "Projekt9",
     kp |-> kp, ki |-> ki, kd |-> kd, dt |-> dt,
     output_min |-> output_min, output_max |-> output_max,
     fehler_vor |-> R(0), integral |-> R(0), output_vor |-> R(0),
     integral_max |-> RDiv(RAbs(RSub(output_max, output_min)), py_max(ki, EPS))]

\* mutant: the upper limit is tested but the unsaturated sum is emitted
P9_begrenzung_unclamped(p, stellgroesse, integral) ==
    IF RLt(p.output_max, stellgroesse)
    THEN [output |-> stellgroesse,
          integral |-> RSub(integral,
                            RDiv(RSub(stellgroesse, p.output_max), py_max(p.ki, EPS)))]
    ELSE IF RLt(stellgroesse, p.output_min)
    THEN [output |-> p.output_min,
          integral |-> RAdd(integral,
                            RDiv(RSub(p.output_min, stellgroesse), py_max(p.ki, EPS)))]
    ELSE [output |-> stellgroesse, integral |-> integral]

\* mutant: the output is limited but the integral is not corrected
P9_begrenzung_no_backcalc(p, stellgroesse, integral) ==
    IF RLt(p.output_max, stellgroesse)
    THEN [output |-> p.output_max, integral |-> integral]
    ELSE IF RLt(stellgroesse, p.output_min)
    THEN [output |-> p.output_min, integral |-> integral]
    ELSE [output |-> stellgroesse, integral |-> integral]

\* the saturation branch of run: the emitted output and the stored integral
P9_begrenzung(p, stellgroesse, integral) ==
    IF RLt(p.output_max, stellgroesse)
    THEN [output |-> p.output_max,
          integral |-> RSub(integral,
                            RDiv(RSub(stellgroesse, p.output_max), py_max(p.ki, EPS)))]
    ELSE IF RLt(stellgroesse, p.output_min)
    THEN [output |-> p.output_min,
          integral |-> RAdd(integral,
                            RDiv(RSub(p.output_min, stellgroesse), py_max(p.ki, EPS)))]
    ELSE [output |-> stellgroesse, integral |-> integral]

\* mutant: the accumulated integral is not clipped
P9_integral_unclipped(p, fehler) == RAdd(p.integral, RMul(fehler, p.dt))

\* the integral after "self.integral += fehler * self.dt" and np.clip
P9_integral_clip(p, fehler) ==
    np_clip(RAdd(p.integral, RMul(fehler, p.dt)), RNeg(p.integral_max), p.integral_max)

\* run(sollwert, istwert): the updated object, the returned output and the
\* locals of the call
P9_PID_run(p, sollwert, istwert) ==
    LET fehler == RSub(sollwert, istwert)
        p_anteil == RMul(p.kp, fehler)
        integral == P9_integral_clip(p, fehler)
        i_anteil == RMul(p.ki, integral)
        d_anteil == RDiv(RMul(p.kd, RSub(fehler, p.fehler_vor)), p.dt)
        stellgroesse == RAdd(RAdd(p_anteil, i_anteil), d_anteil)
        b == P9_begrenzung(p, stellgroesse, integral)
    IN  [obj |-> [p EXCEPT !.integral = b.integral,
                           !.fehler_vor = fehler,
                           !.output_vor = b.output],
         output |-> b.output,
         fehler |-> fehler, p_anteil |-> p_anteil, integral |-> integral,
         i_anteil |-> i_anteil, d_anteil |-> d_anteil,
         stellgroesse |-> stellgroesse]

\* mutant: reset that leaves the integral as it is
P9_PID_reset_ohne_integral(p) ==
    [p EXCEPT !.fehler_vor = R(0), !.output_vor = R(0)]

\* mutant: reset that leaves the previous error as it is
P9_PID_reset_ohne_fehler_vor(p) ==
    [p EXCEPT !.integral = R(0), !.output_vor = R(0)]

\* reset()
P9_PID_reset(p) ==
    [p EXCEPT !.fehler_vor = R(0), !.integral = R(0), !.output_vor = R(0)]

(***************************************************************************)
(* PID controller, Testprojekt.py.  __init__ raises ValueError for dt <= 0.*)
(***************************************************************************)
TP_PID_init(kp, ki, kd, dt, output_min, output_max) ==
    IF RLe(dt, R(0)) THEN [raised |-> TRUE]
    ELSE [raised |-> FALSE,
          obj |-> [cls |-> "Testprojekt",
                   kp |-> kp, ki |-> ki, kd |-> kd, dt |-> dt,
                   output_min |-> output_min, output_max |-> output_max,
                   fehler_vor |-> R(0), integral |-> R(0), output_vor |-> R(0),
                   integral_max |->
                       RDiv(RAbs(RSub(output_max, output_min)), py_max(ki, EPS))]]

\* mutant: below output_min the integral is corrected in the wrong direction
TP_begrenzung_wrong_sign(p, stellgroesse, integral) ==
    IF RLt(p.output_max, stellgroesse)
    THEN [output |-> p.output_max,
          integral |-> RSub(integral,
                            RDiv(RSub(stellgroesse, p.output_max), py_max(p.ki, EPS)))]
    ELSE IF RLt(stellgroesse, p.output_min)
    THEN [output |-> p.output_min,
          integral |-> RSub(integral,
                            RDiv(RSub(p.output_min, stellgroesse), py_max(p.ki, EPS)))]
    ELSE [output |-> stellgroesse, integral |-> integral]

TP_begrenzung(p, stellgroesse, integral) ==
    IF RLt(p.output_max, stellgroesse)
    THEN [output |-> p.output_max,
          integral |-> RSub(integral,
                            RDiv(RSub(stellgroesse, p.output_max), py_max(p.ki, EPS)))]
    ELSE IF RLt(stellgroesse, p.output_min)
    THEN [output |-> p.output_min,
          integral |-> RAdd(integral,
                            RDiv(RSub(p.output_min, stellgroesse), py_max(p.ki, EPS)))]
    ELSE [output |-> stellgroesse, integral |-> integral]

TP_integral_clip(p, fehler) ==
    np_clip(RAdd(p.integral, RMul(fehler, p.dt)), RNeg(p.integral_max), p.integral_max)

TP_PID_run(p, sollwert, istwert) ==
    LET fehler == RSub(sollwert, istwert)
        p_anteil == RMul(p.kp, fehler)
        integral == TP_integral_clip(p, fehler)
        i_anteil == RMul(p.ki, integral)
        d_anteil == RDiv(RMul(p.kd, RSub(fehler, p.fehler_vor)), p.dt)
        stellgroesse == RAdd(RAdd(p_anteil, i_anteil), d_anteil)
        b == TP_begrenzung(p, stellgroesse, integral)
    IN  [obj |-> [p EXCEPT !.integral = b.integral,
                           !.fehler_vor = fehler,
                           !.output_vor = b.output],
         output |-> b.output,
         fehler |-> fehler, p_anteil |-> p_anteil, integral |-> integral,
         i_anteil |-> i_anteil, d_anteil |-> d_anteil,
         stellgroesse |-> stellgroesse]

TP_PID_reset(p) ==
    [p EXCEPT !.fehler_vor = R(0), !.integral = R(0), !.output_vor = R(0)]

\* the method of the object's own class
PID_run(p, sollwert, istwert) ==
    IF p.cls = "Projekt9" THEN P9_PID_run(p, sollwert, istwert)
    ELSE TP_PID_run(p, sollwert, istwert)

PID_reset(p) == IF p.cls = "Projekt9" THEN P9_PID_reset(p) ELSE TP_PID_reset(p)

(***************************************************************************)
(* The controller as a state machine: a constructed controller, then any   *)
(* sequence of run and reset calls.                                        *)
(***************************************************************************)
MaxCalls == 3

Kps == {R(0), R(1), R(5)}
Kis == {R(0), Q(1, 2), R(1)}
Kds == {R(0), R(2)}
Dts == {R(1), R(2)}
OutputBounds == {<<R(-10), R(20)>>, <<R(-20), R(-5)>>, <<R(20), R(-10)>>}
Sollwerte == {R(16), R(37)}
Istwerte == {R(16), R(58)}

PIDObjects ==
    { P9_PID_init(kp, ki, kd, dt, b[1], b[2]) :
        kp \in Kps, ki \in Kis, kd \in Kds, dt \in Dts, b \in OutputBounds }
    \cup
    { TP_PID_init(kp, ki, kd, dt, b[1], b[2]).obj :
        kp \in Kps, ki \in Kis, kd \in Kds, dt \in Dts, b \in OutputBounds }

NoCall ==
    [op |-> "init", vorher |-> "none", pre |-> <<>>, sollwert |-> R(0), istwert |-> R(0),
     output |-> R(0), fehler |-> R(0), integral |-> R(0), i_anteil |-> R(0),
     d_anteil |-> R(0), stellgroesse |-> R(0)]

NoSat == [n |-> 0, e |-> R(0), before |-> R(0)]

\* no reactor is part of the controller's own state machine
NoReaktor ==
    /\ rk = [cls |-> "none"] /\ rkLast = [op |-> "none"] /\ rkCalls = 0
    /\ coolprop = "none"

PIDInit ==
    /\ pid \in PIDObjects
    /\ pidLast = NoCall
    /\ pidCalls = 0
    /\ satN = NoSat
    /\ satPrev = NoSat
    /\ NoReaktor

\* the count of consecutive run calls, up to and including this one, that had
\* the same error e, a proportional part above output_max and returned
\* output_max; before is fehler_vor at the first of them
SatAfter(p, r) ==
    IF RLt(p.output_max, r.p_anteil) /\ r.output = p.output_max
    THEN IF satN.n > 0 /\ satN.e = r.fehler
         THEN [satN EXCEPT !.n = satN.n + 1]
         ELSE [n |-> 1, e |-> r.fehler, before |-> p.fehler_vor]
    ELSE NoSat

Call(sollwert, istwert) ==
    /\ LET r == PID_run(pid, sollwert, istwert)
       IN  /\ pid' = r.obj
           /\ pidLast' = [op |-> "run", vorher |-> pidLast.op, pre |-> pid,
                          sollwert |-> sollwert, istwert |-> istwert,
                          output |-> r.output, fehler |-> r.fehler,
                          integral |-> r.integral, i_anteil |-> r.i_anteil,
                          d_anteil |-> r.d_anteil,
                          stellgroesse |-> r.stellgroesse]
           /\ satN' = SatAfter(pid, r)
    /\ satPrev' = satN
    /\ pidCalls' = pidCalls + 1
    /\ UNCHANGED rkVars

CallReset ==
    /\ pid' = PID_reset(pid)
    /\ pidLast' = [NoCall EXCEPT !.op = "reset", !.vorher = pidLast.op, !.pre = pid]
    /\ satN' = NoSat
    /\ satPrev' = satN
    /\ pidCalls' = pidCalls + 1
    /\ UNCHANGED rkVars

Run(sollwert, istwert) == pidCalls < MaxCalls /\ Call(sollwert, istwert)

Reset == pidCalls < MaxCalls /\ CallReset

(***************************************************************************)
(* Properties of the controller.                                           *)
(***************************************************************************)
IsRun == pidLast.op = "run"

\* the quantities of the last run call, restated from the state before it
PreIntegralAcc == RAdd(pidLast.pre.integral, RMul(pidLast.fehler, pidLast.pre.dt))
PreIntegralClip ==
    np_clip(PreIntegralAcc, RNeg(pidLast.pre.integral_max), pidLast.pre.integral_max)
PreRaw ==
    RAdd(RAdd(RMul(pidLast.pre.kp, pidLast.fehler),
              RMul(pidLast.pre.ki, PreIntegralClip)),
         RDiv(RMul(pidLast.pre.kd, RSub(pidLast.fehler, pidLast.pre.fehler_vor)),
              pidLast.pre.dt))
OutputRange == RAbs(RSub(pid.output_max, pid.output_min))

\* C1: with output_min <= output_max, every value returned by run lies in
\* [output_min, output_max], whatever calls of run and reset came before.
C1_OutputInBounds ==
    (IsRun /\ RLe(pid.output_min, pid.output_max))
        => /\ RLe(pid.output_min, pidLast.output)
           /\ RLe(pidLast.output, pid.output_max)

\* a run call after a reset whose unsaturated sum was above output_max
C1_Witness ==
    /\ IsRun
    /\ pidCalls >= 3
    /\ RLe(pid.output_min, pid.output_max)
    /\ RLt(pid.output_max, pidLast.stellgroesse)
    /\ pidLast.output = pid.output_max
    /\ pidLast.pre.integral = R(0) /\ pidLast.pre.fehler_vor = R(0)

\* C3: run returns output_max and lowers the stored integral by
\* (raw - output_max)/max(ki, 1e-6) if raw > output_max, returns output_min and
\* raises it by (output_min - raw)/max(ki, 1e-6) if raw < output_min, and
\* otherwise returns raw and stores the clamped accumulated integral.
C3_Saturation ==
    IsRun =>
        IF RLt(pid.output_max, PreRaw)
        THEN /\ pidLast.output = pid.output_max
             /\ pid.integral =
                  RSub(PreIntegralClip,
                       RDiv(RSub(PreRaw, pid.output_max), py_max(pid.ki, EPS)))
        ELSE IF RLt(PreRaw, pid.output_min)
        THEN /\ pidLast.output = pid.output_min
             /\ pid.integral =
                  RAdd(PreIntegralClip,
                       RDiv(RSub(pid.output_min, PreRaw), py_max(pid.ki, EPS)))
        ELSE /\ pidLast.output = PreRaw
             /\ pid.integral = PreIntegralClip

\* a Testprojekt run below output_min whose integral had been clamped first
C3_Witness ==
    /\ IsRun
    /\ pid.cls = "Testprojekt"
    /\ RLt(PreRaw, pid.output_min)
    /\ PreIntegralClip # PreIntegralAcc
    /\ pidLast.output = pid.output_min

\* C4: in every run call of the Projekt9 controller the integral contribution
\* ki*integral that enters P + I + D is at most |output_max - output_min| in
\* magnitude.
C4_IntegralContribution ==
    (IsRun /\ pid.cls = "Projekt9") => RLe(RAbs(pidLast.i_anteil), OutputRange)

\* a run call in which np.clip cut the accumulated integral, with ki > 0
C4_Witness ==
    /\ IsRun
    /\ pid.cls = "Projekt9"
    /\ RLt(R(0), pid.ki)
    /\ RLt(pid.integral_max, RAbs(PreIntegralAcc))
    /\ RAbs(pidLast.i_anteil) = OutputRange

\* C5: the stored integral of the Projekt9 controller satisfies
\* |integral| <= integral_max = |output_max - output_min| / max(ki, 1e-6) in
\* every reachable state.
C5_StoredIntegralBounded ==
    pid.cls = "Projekt9" =>
        /\ pid.integral_max = RDiv(OutputRange, py_max(pid.ki, EPS))
        /\ RLe(RAbs(pid.integral), pid.integral_max)

\* the last call was a run with zero error that directly followed n >= 1
\* consecutive saturated calls with one error whose proportional part alone
\* exceeded output_max
Released ==
    /\ IsRun
    /\ pid.cls = "Projekt9"
    /\ RLt(R(0), pid.ki)
    /\ satPrev.n >= 1
    /\ pidLast.fehler = R(0)

PIDNext ==
    \/ \E s \in Sollwerte, i \in Istwerte : Run(s, i)
    \/ Reset

SpecPID == PIDInit /\ [][PIDNext]_vars

(***************************************************************************)
(* Saturation and release: the Projekt9 controller driven by errors that   *)
(* reach far beyond the output range.                                      *)
(***************************************************************************)
MaxWindupCalls == 4

WindupKps == {R(1), R(5)}
WindupKis == {Q(1, 2), R(1)}
WindupKds == {R(0), R(2)}
WindupDts == {R(1), R(2)}
WindupBounds == {<<R(-50), R(20)>>, <<R(-20), R(-5)>>}
WindupSollwert == R(37)
WindupIstwerte == {R(-93), R(-17), R(16), R(37)}

WindupObjects ==
    { P9_PID_init(kp, ki, kd, dt, b[1], b[2]) :
        kp \in WindupKps, ki \in WindupKis, kd \in WindupKds, dt \in WindupDts,
        b \in WindupBounds }

WindupInit ==
    /\ pid \in WindupObjects
    /\ pidLast = NoCall
    /\ pidCalls = 0
    /\ satN = NoSat
    /\ satPrev = NoSat
    /\ NoReaktor

WindupRun(istwert) == pidCalls < MaxWindupCalls /\ Call(WindupSollwert, istwert)

WindupReset == pidCalls < MaxWindupCalls /\ CallReset

WindupNext ==
    \/ \E i \in WindupIstwerte : WindupRun(i)
    \/ WindupReset

SpecWindup == WindupInit /\ [][WindupNext]_vars

C6_StuckAfterDrop ==
    /\ Released
    /\ RLt(pid.output_min, pid.output_max)
    /\ RLe(R(0), pid.output_max)
    /\ pidLast.output = pid.output_max

(***************************************************************************)
(* Bioreaktor, Projekt9.py.  Units of the fixed-point quantities:          *)
(*   temperatures            1/TS degC       powers, heat loss    mW       *)
(*   lengths                 mm              areas                cm^2     *)
(*   reaktor_vol             L               drehz                1/min    *)
(*   spez_c                  J/(kg K)        dichte               g/m^3    *)
(*   k                       mW/(m K)        mu                   uPa s    *)
(*   h_int, h_ext            W/(m^2 K)       lambda_wand          0.1 W/(m K) *)
(*   thermal resistances     1e-8 K/W        masse                mg       *)
(*   Reynolds number         1               Prandtl, Nusselt     1/1000   *)
(***************************************************************************)
TS == 10^5
DegC(n) == n * TS
Watt(n) == n * 1000

\* np.pi, in millionths
PI == 3141593

\* numpy.clip on fixed-point numbers
clip(x, lo, hi) == Min2(Max2(x, lo), hi)


(***************************************************************************)
(* CoolProp's PropsSI("...", "T", t + 273.15, "P", 101325, "Water"),       *)
(* tabulated: one value per band of temperature.  A call either raises or  *)
(* returns; the four properties of one temperature raise together.  It    *)
(* raises below the melting line, above 2000 K and within a few 1e-5 K of  *)
(* the boiling point (99.974 degC), where the flash routine refuses the    *)
(* state.  Between the melting line and the triple point (0.01 degC) the   *)
(* behaviour depends on the installed library and is read from coolprop:   *)
(* it raises or returns the values of the supercooled liquid.  With        *)
(* coolprop = "fails" the lookup fails whatever the temperature.           *)
(***************************************************************************)
Raises == [raises |-> TRUE]
Werte(spez_c, dichte, k, mu) ==
    [raises |-> FALSE, spez_c |-> spez_c, dichte |-> dichte, k |-> k, mu |-> mu]

Schmelzpunkt == DegC(-22)
Tripelpunkt == TS \div 100
Siedepunkt == DegC(99) + 97400
Siedefenster == 3
Tmax == DegC(1726)

PropsSI_Water(t) ==
    IF coolprop = "fails" \/ t < Schmelzpunkt \/ t > Tmax THEN Raises
    ELSE IF t < Tripelpunkt THEN
        IF coolprop = "raises" THEN Raises ELSE Werte(4220, 999800, 561, 1792)
    ELSE IF t < DegC(15) THEN Werte(4195, 999700, 580, 1306)
    ELSE IF t < DegC(30) THEN Werte(4184, 998200, 598, 1002)
    ELSE IF t < DegC(50) THEN Werte(4180, 992200, 631, 653)
    ELSE IF t < DegC(70) THEN Werte(4185, 983200, 654, 466)
    ELSE IF t < Siedepunkt - Siedefenster THEN Werte(4197, 971800, 670, 354)
    ELSE IF t <= Siedepunkt + Siedefenster THEN Raises
    ELSE Werte(2080, 597, 25, 12)

\* the behaviours of the library a run can meet
CoolProps == {"raises", "returns"}

\* update_stoffwerte(t): the four fluid properties it stores, or Raises
P9_update_stoffwerte(t) ==
    IF 0 < t /\ t < DegC(100) THEN PropsSI_Water(t)
    ELSE Werte(4185, 998000, 599, 1002)

\* geometrie_daten(reaktor_vol, wand_stk)
P9_geometrie_daten(reaktor_vol, wand_stk) ==
    LET r_i == ICbrt(MulDiv(reaktor_vol * 500000, PI, 10^6))
        r_a == r_i + wand_stk
        h_i == 4 * r_i
        h_a == h_i + 2 * wand_stk
    IN  [reaktor_vol |-> reaktor_vol, wand_stk |-> wand_stk,
         r_i |-> r_i, r_a |-> r_a, h_i |-> h_i, h_a |-> h_a,
         flaeche_i |-> MulDiv(2 * r_i * r_i, PI, 10^8) + MulDiv(2 * r_i * h_i, PI, 10^8),
         flaeche_a |-> MulDiv(2 * r_a * r_a, PI, 10^8) + MulDiv(2 * r_a * h_a, PI, 10^8),
         ruehrer_d |-> (2 * r_i) \div 3]

\* berech_lambda(wand_mat)
P9_berech_lambda(wand_mat) ==
    CASE wand_mat = "stahl" -> 500
      [] wand_mat = "edelstahl" -> 210
      [] wand_mat = "glas" -> 14
      [] wand_mat = "kunststoff" -> 3
      [] wand_mat = "aluminium" -> 2370
      [] OTHER -> 500

\* the regime branch of berech_h_int for a Reynolds and a Prandtl number
P9_regime(Re, Pr) ==
    IF 4500 < Re /\ Re < 10000 /\ 600 < Pr /\ Pr < 160000 THEN "uebergang"
    ELSE IF Re >= 10000 /\ Pr >= 600 THEN "turbulent"
    ELSE "laminar"

\* the Nusselt correlations of the transitional and the turbulent regime
Nu_uebergang(Re, Pr) ==
    MulDiv(354, MulDiv(Pow(Re * FP, 714, 1000), Pow(MulDiv(Pr, FP, 1000), 260, 1000), FP), FP)
Nu_turbulent(Re, Pr) ==
    MulDiv(23, MulDiv(Pow(Re * FP, 8, 10), Pow(MulDiv(Pr, FP, 1000), 4, 10), FP), FP)

\* the Nusselt number of berech_h_int
P9_Nu(Re, Pr) ==
    CASE P9_regime(Re, Pr) = "uebergang" -> Nu_uebergang(Re, Pr)
      [] P9_regime(Re, Pr) = "turbulent" -> Nu_turbulent(Re, Pr)
      [] OTHER -> 3660

\* fluids.Prandtl(Cp, mu, k) = Cp*mu/k
Prandtl(spez_c, mu, k) == MulDiv(spez_c, mu, k)

\* the Reynolds number of the stirrer: (n/60) d^2 rho / mu
Reynolds(drehz, d, dichte, mu) == MulDiv(drehz * d * d, dichte, 60000 * mu)

\* mutant: the coefficient of the correlation without the minimum
P9_berech_h_int_ohne_minimum(self) ==
    LET Re == Reynolds(self.drehz, self.ruehrer_d, self.dichte, self.mu)
        Pr == Prandtl(self.spez_c, self.mu, self.k)
    IN  MulDiv(P9_Nu(Re, Pr), self.k, self.ruehrer_d * 1000)

\* berech_h_int()
P9_berech_h_int(self) ==
    LET Re == Reynolds(self.drehz, self.ruehrer_d, self.dichte, self.mu)
        Pr == Prandtl(self.spez_c, self.mu, self.k)
        h == MulDiv(P9_Nu(Re, Pr), self.k, self.ruehrer_d * 1000)
    IN  Max2(h, 150)

\* the total thermal resistance of t_verlust
P9_r_gesamt(self) ==
    LET a_mittel == (self.flaeche_i + self.flaeche_a) \div 2
        r_int == MulDiv(10^6, 10^6, self.h_int * self.flaeche_i)
        r_cond == MulDiv(self.wand_stk * 10^4, 10^6, self.lambda_wand * a_mittel)
        r_ext == MulDiv(10^6, 10^6, self.h_ext * self.flaeche_a)
    IN  r_int + r_cond + r_ext

\* t_verlust() that forgets the ambient temperature
P9_t_verlust_ohne_umgebung(self) ==
    IF Abs(self.t_ist) < TS \div 100 THEN 0
    ELSE MulDiv(self.t_ist, 10^6, P9_r_gesamt(self))

\* t_verlust()
P9_t_verlust(self) ==
    LET delta_t == self.t_ist - self.t_umgebung
    IN  IF Abs(delta_t) < TS \div 100 THEN 0
        ELSE MulDiv(delta_t, 10^6, P9_r_gesamt(self))

\* the object with the fluid properties w stored
mit_stoffwerten(self, w) ==
    [self EXCEPT !.spez_c = w.spez_c, !.dichte = w.dichte, !.k = w.k, !.mu = w.mu]

\* Bioreaktor(reaktor_vol, t_start, t_umgebung, drehz, wand_mat, wand_stk):
\* the object; it raises when a property call raises or when the volume is
\* not positive (division by a zero stirrer diameter, comparison of a
\* complex Reynolds number)
P9_Bioreaktor_init(reaktor_vol, t_start, t_umgebung, drehz, wand_mat, wand_stk) ==
    LET w == P9_update_stoffwerte(t_start)
        g == P9_geometrie_daten(reaktor_vol, wand_stk)
        b1 == [cls |-> "Projekt9", t_start |-> t_start,
               spez_c |-> w.spez_c, dichte |-> w.dichte, k |-> w.k, mu |-> w.mu,
               t_umgebung |-> t_umgebung, t_ist |-> t_start, drehz |-> drehz,
               reaktor_vol |-> g.reaktor_vol, wand_stk |-> g.wand_stk,
               r_i |-> g.r_i, r_a |-> g.r_a, h_i |-> g.h_i, h_a |-> g.h_a,
               flaeche_i |-> g.flaeche_i, flaeche_a |-> g.flaeche_a,
               ruehrer_d |-> g.ruehrer_d,
               h_int |-> 0, h_ext |-> 35,
               lambda_wand |-> P9_berech_lambda(wand_mat),
               max_leistung |-> Watt(2000), min_leistung |-> Watt(-1000)]
    IN  IF w.raises \/ reaktor_vol <= 0 THEN [raised |-> TRUE]
        ELSE [raised |-> FALSE, obj |-> [b1 EXCEPT !.h_int = P9_berech_h_int(b1)]]

\* the requested power applied as it is
P9_leistung_unbegrenzt(self, leistung) == leistung

\* the power update_temperatur applies for a requested power
P9_leistung(self, leistung) == clip(leistung, self.min_leistung, self.max_leistung)

\* the limits without the upper one
P9_grenzen_ohne_obergrenze(t) == Max2(t, DegC(4))

\* the practical limits update_temperatur applies to the new temperature
P9_grenzen(t) == Min2(Max2(t, DegC(4)), DegC(100))

\* energie_netto / (masse * spez_c) for a heat capacity in mJ/K.  A change
\* beyond MaxDelta kelvin is recorded as MaxDelta kelvin: the limits applied
\* to the new temperature give the same result for both.
MaxDelta == 10^4
TempDelta[netto \in Int, zeitintervall \in Int, kapazitaet \in Int] ==
    IF Abs(MulDiv(netto, zeitintervall, kapazitaet)) >= MaxDelta
    THEN Sign(netto) * Sign(kapazitaet) * DegC(MaxDelta)
    ELSE MulDiv(netto, zeitintervall * TS, kapazitaet)
temp_delta_of(netto, zeitintervall, kapazitaet) == TempDelta[netto, zeitintervall, kapazitaet]

\* the only element of a one-element set; b \in {e} names the value of e
Einzig(S) == CHOOSE x \in S : TRUE

\* the object after self.h_int = self.berech_h_int()
P9_mit_h_int(self) == [self EXCEPT !.h_int = P9_berech_h_int(self)]

\* the last lines of update_temperatur for the limited power p and the heat
\* loss q, on the object with the refreshed properties: the updated object,
\* the returned temperature and the locals of the call
P9_neue_temperatur(self, p, zeitintervall, q) ==
    Einzig({ [raised |-> FALSE,
              obj |-> [self EXCEPT !.t_ist = P9_grenzen(self.t_ist + temp_delta)],
              result |-> P9_grenzen(self.t_ist + temp_delta),
              leistung |-> p, q_verlust |-> q, temp_delta |-> temp_delta,
              tau |-> MulDiv(P9_r_gesamt(self),
                             MulDiv(self.dichte * self.reaktor_vol, self.spez_c, 10^6), 10^8)] :
             temp_delta \in {temp_delta_of(p - q, zeitintervall,
                                           MulDiv(self.dichte * self.reaktor_vol,
                                                  self.spez_c, 1000))} })

\* the energy balance of update_temperatur
P9_energiebilanz(self, p, zeitintervall) ==
    Einzig({ P9_neue_temperatur(self, p, zeitintervall, q) : q \in {P9_t_verlust(self)} })

\* mutant: the step is integrated with the stored properties, and the
\* properties of the new temperature are stored afterwards
P9_update_temperatur_stoffwerte_danach(self, leistung, zeitintervall) ==
    Einzig({ LET w == P9_update_stoffwerte(r.result)
             IN  IF w.raises THEN [raised |-> TRUE, obj |-> r.obj]
                 ELSE [r EXCEPT !.obj = mit_stoffwerten(r.obj, w)] :
             r \in {P9_energiebilanz(P9_mit_h_int(self), P9_leistung(self, leistung),
                                     zeitintervall)} })

\* update_temperatur(leistung, zeitintervall); when update_stoffwerte
\* raises, the object is as before
P9_update_temperatur(self, leistung, zeitintervall) ==
    LET w == P9_update_stoffwerte(self.t_ist)
    IN  IF w.raises THEN [raised |-> TRUE, obj |-> self]
        ELSE Einzig({ P9_energiebilanz(b2, P9_leistung(self, leistung), zeitintervall) :
                      b2 \in {P9_mit_h_int(mit_stoffwerten(self, w))} })

\* an optional argument: None, or the one-element sequence of the value
None == <<>>
Some(x) == <<x>>

\* mutant: the fluid properties are refreshed before t_ist is assigned
P9_Bioreaktor_reset_stoffwerte_zuerst(self, t_start) ==
    LET t == IF t_start = None THEN self.t_start ELSE t_start[1]
        w == P9_update_stoffwerte(self.t_ist)
        b1 == [self EXCEPT !.t_ist = t]
    IN  IF w.raises THEN [raised |-> TRUE, obj |-> b1]
        ELSE [raised |-> FALSE, obj |-> mit_stoffwerten(b1, w)]

\* reset(t_start); when update_stoffwerte raises, t_ist is already set
P9_Bioreaktor_reset(self, t_start) ==
    LET t == IF t_start = None THEN self.t_start ELSE t_start[1]
        w == P9_update_stoffwerte(t)
        b1 == [self EXCEPT !.t_ist = t]
    IN  IF w.raises THEN [raised |-> TRUE, obj |-> b1]
        ELSE [raised |-> FALSE, obj |-> mit_stoffwerten(b1, w)]

(***************************************************************************)
(* Bioreaktor, Testprojekt.py.  Units as above; h_intern and h_extern in   *)
(* W/(m^2 K), flaeche in cm^2, volumen in L, rpm in 1/min.                 *)
(***************************************************************************)
\* _update_fluid_properties(temp): spez_c and dichte, with the fallback
\* values when the property call raises
TP_update_fluid_properties(temp) ==
    LET w == PropsSI_Water(temp)
    IN  IF w.raises THEN [spez_c |-> 4186, dichte |-> 1000000]
        ELSE [spez_c |-> w.spez_c, dichte |-> w.dichte]

\* _berechnung_h_extern()
TP_berechnung_h_extern(self) ==
    LET delta_t == Abs(self.ist_temp - self.umg_temp)
        h_ext == IF delta_t > 0
                 THEN 5 + (3 * Pow(MulDiv(delta_t, FP, TS), 1, 4)) \div FP
                 ELSE 5
    IN  Min2(h_ext, 25)

\* the regime branch of berechnung_h for a Reynolds and a Prandtl number
TP_regime(Re, Pr) ==
    IF Re < 10 THEN "ruhend"
    ELSE IF 10 <= Re /\ Re < 4500 THEN "laminar"
    ELSE IF 4500 <= Re /\ Re < 10000 /\ 600 < Pr /\ Pr < 160000 THEN "uebergang"
    ELSE IF Re >= 10000 /\ Pr >= 600 THEN "turbulent"
    ELSE "sonst"

\* the Nusselt number of berechnung_h
TP_Nu(Re, Pr) ==
    CASE TP_regime(Re, Pr) = "ruhend" -> 2000
      [] TP_regime(Re, Pr) = "laminar" ->
           MulDiv(664, MulDiv(Pow(Re * FP, 1, 2), Pow(MulDiv(Pr, FP, 1000), 1, 3), FP), FP)
      [] TP_regime(Re, Pr) = "uebergang" -> Nu_uebergang(Re, Pr)
      [] TP_regime(Re, Pr) = "turbulent" -> Nu_turbulent(Re, Pr)
      [] OTHER -> 3660

\* berechnung_h(): any exception inside gives the fallback value
TP_berechnung_h(self) ==
    LET w == PropsSI_Water(self.ist_temp)
        Re == Reynolds(self.rpm, self.d_ruehrer, self.dichte, w.mu)
        Pr == Prandtl(self.spez_c, w.mu, w.k)
        h == MulDiv(TP_Nu(Re, Pr), w.k, self.d_ruehrer * 1000)
    IN  IF w.raises \/ self.d_ruehrer = 0 THEN 500 ELSE Max2(h, 100)

\* get_waermeleitfaehigkeit(material)
TP_get_waermeleitfaehigkeit(material) ==
    CASE material = "stahl" -> 210
      [] material = "edelstahl" -> 160
      [] material = "glas" -> 14
      [] material = "kunststoff" -> 2
      [] material = "aluminium" -> 2370
      [] OTHER -> 160

\* the total thermal resistance of berechnung_waermeverlust
TP_R_gesamt(self) ==
    LET R_int == MulDiv(10^6, 10^6, self.h_intern * self.flaeche)
        R_cond == MulDiv(self.wandstaerke * 10^4, 10^6, self.lambda_wand * self.flaeche)
        R_ext == MulDiv(10^6, 10^6, self.h_extern * self.flaeche)
    IN  R_int + R_cond + R_ext

\* berechnung_waermeverlust()
TP_berechnung_waermeverlust(self) ==
    LET delta_t == self.ist_temp - self.umg_temp
    IN  IF Abs(delta_t) < TS \div 100 THEN 0
        ELSE MulDiv(delta_t, 10^6, TP_R_gesamt(self))

\* Bioreaktor(volumen, start_temp, umg_temp, rpm, wandmaterial, wandstaerke):
\* the object, or the ValueError of the input validation
TP_Bioreaktor_init(volumen, start_temp, umg_temp, rpm, wandmaterial, wandstaerke) ==
    LET radius == ICbrt(MulDiv(volumen * 500000, 10^6, PI))
        hoehe == 2 * radius
        r_aussen == radius + wandstaerke
        h_aussen == hoehe + 2 * wandstaerke
        w == TP_update_fluid_properties(start_temp)
        b1 == [cls |-> "Testprojekt", start_temp |-> start_temp,
               spez_c |-> w.spez_c, dichte |-> w.dichte,
               volumen |-> volumen, radius |-> radius, hoehe |-> hoehe,
               flaeche |-> MulDiv(2 * r_aussen * r_aussen, PI, 10^8)
                           + MulDiv(2 * r_aussen * h_aussen, PI, 10^8),
               wandstaerke |-> wandstaerke, d_ruehrer |-> (2 * radius) \div 3,
               umg_temp |-> umg_temp, ist_temp |-> start_temp, rpm |-> rpm,
               h_intern |-> 0, h_extern |-> 0,
               lambda_wand |-> TP_get_waermeleitfaehigkeit(wandmaterial),
               max_heizleistung |-> Watt(5000), min_heizleistung |-> Watt(-2000)]
        b2 == [b1 EXCEPT !.h_intern = TP_berechnung_h(b1)]
    IN  IF volumen <= 0 \/ start_temp < DegC(-273) - 15000 \/ rpm < 0 \/ wandstaerke <= 0
        THEN [raised |-> TRUE]
        ELSE [raised |-> FALSE, obj |-> [b2 EXCEPT !.h_extern = TP_berechnung_h_extern(b2)]]

\* the power update_temperature applies for a requested power
TP_leistung(self, leistung) == clip(leistung, self.min_heizleistung, self.max_heizleistung)

\* the physical limits update_temperature applies to the new temperature
TP_grenzen(t) == Min2(Max2(t, DegC(-50)), DegC(150))

\* the object after the three refreshing assignments of update_temperature
TP_mit_eigenschaften(self) ==
    LET w == TP_update_fluid_properties(self.ist_temp)
        b1 == [self EXCEPT !.spez_c = w.spez_c, !.dichte = w.dichte]
    IN  Einzig({ [b2 EXCEPT !.h_extern = TP_berechnung_h_extern(b2)] :
                 b2 \in {[b1 EXCEPT !.h_intern = TP_berechnung_h(b1)]} })

\* the last lines of update_temperature for the limited power p and the
\* heat loss, on the object with the refreshed properties: the updated
\* object, the returned temperature and the locals of the call
TP_neue_temperatur(self, p, zeitintervall, waermeverlust) ==
    Einzig({ [raised |-> FALSE,
              obj |-> [self EXCEPT !.ist_temp = TP_grenzen(self.ist_temp + temp_delta)],
              result |-> TP_grenzen(self.ist_temp + temp_delta),
              leistung |-> p, q_verlust |-> waermeverlust, temp_delta |-> temp_delta,
              tau |-> MulDiv(TP_R_gesamt(self),
                             MulDiv(self.dichte * self.volumen, self.spez_c, 10^6), 10^8)] :
             temp_delta \in {temp_delta_of(p - waermeverlust, zeitintervall,
                                           MulDiv(self.dichte * self.volumen,
                                                  self.spez_c, 1000))} })

\* the energy balance of update_temperature
TP_energiebilanz(self, p, zeitintervall) ==
    Einzig({ TP_neue_temperatur(self, p, zeitintervall, q) :
             q \in {TP_berechnung_waermeverlust(self)} })

\* update_temperature(leistung, zeitintervall)
TP_update_temperature(self, leistung, zeitintervall) ==
    Einzig({ TP_energiebilanz(b3, TP_leistung(self, leistung), zeitintervall) :
             b3 \in {TP_mit_eigenschaften(self)} })

\* reset(start_temp)
TP_Bioreaktor_reset(self, start_temp) ==
    LET t == IF start_temp = None THEN self.start_temp ELSE start_temp[1]
        w == TP_update_fluid_properties(t)
    IN  [raised |-> FALSE,
         obj |-> [self EXCEPT !.ist_temp = t, !.spez_c = w.spez_c, !.dichte = w.dichte]]

\* the two classes behind one interface
Bioreaktor_update(self, leistung, zeitintervall) ==
    IF self.cls = "Projekt9" THEN P9_update_temperatur(self, leistung, zeitintervall)
    ELSE TP_update_temperature(self, leistung, zeitintervall)
Bioreaktor_reset(self, t_start) ==
    IF self.cls = "Projekt9" THEN P9_Bioreaktor_reset(self, t_start)
    ELSE TP_Bioreaktor_reset(self, t_start)
Temperatur(self) == IF self.cls = "Projekt9" THEN self.t_ist ELSE self.ist_temp
Umgebung(self) == IF self.cls = "Projekt9" THEN self.t_umgebung ELSE self.umg_temp
Waermeverlust(self) ==
    IF self.cls = "Projekt9" THEN P9_t_verlust(self) ELSE TP_berechnung_waermeverlust(self)

(***************************************************************************)
(* The state machine of one Bioreaktor object: it is constructed, then     *)
(* update_temperatur / update_temperature, reset and the heat-loss method  *)
(* are called on it in any order.                                          *)
(***************************************************************************)
MaxUpdates == 2

Klassen == {"Projekt9", "Testprojekt"}
Volumina == {10}
Starttemperaturen == {DegC(2), DegC(20), DegC(20) + 500, DegC(37), DegC(130)}
Umgebungen == {DegC(2), DegC(20)}
Drehzahlen == {100}
\* wall material and thickness in mm
Waende == {<<"stahl", 5>>, <<"kunststoff", -20>>}
Leistungen == {Watt(-5000), 0, Watt(9000)}
Zeitintervalle == {5, 3000}
ResetArgs == {None, Some(DegC(20))}

\* no controller is part of the reactor's own state machine
NoPID ==
    /\ pid = "none" /\ pidLast = NoCall /\ pidCalls = 0
    /\ satN = NoSat /\ satPrev = NoSat

ReaktorInit ==
    /\ NoPID
    /\ rk = [cls |-> "none"]
    /\ rkLast = [op |-> "none"]
    /\ rkCalls = 0
    /\ coolprop \in CoolProps

Bioreaktor_init(cls, vol, t_start, t_umgebung, drehz, wand_mat, wand_stk) ==
    IF cls = "Projekt9"
    THEN P9_Bioreaktor_init(vol, t_start, t_umgebung, drehz, wand_mat, wand_stk)
    ELSE TP_Bioreaktor_init(vol, t_start, t_umgebung, drehz, wand_mat, wand_stk)

\* the constructor call; when it raises there is no object
Construct(cls, vol, t_start, t_umgebung, drehz, wand) ==
    /\ rk.cls = "none"
    /\ rkLast.op = "none"
    /\ \E c \in {Bioreaktor_init(cls, vol, t_start, t_umgebung, drehz, wand[1], wand[2])} :
           /\ rk' = IF c.raised THEN rk ELSE c.obj
           /\ rkLast' = [op |-> "init", cls |-> cls, vol |-> vol, t_start |-> t_start,
                         drehz |-> drehz, wand_stk |-> wand[2], raised |-> c.raised]
    /\ UNCHANGED <<rkCalls, coolprop>>
    /\ UNCHANGED pidVars

\* min(max(leistung, lower power limit), upper power limit) of the object
Bioreaktor_clip(self, leistung) ==
    IF self.cls = "Projekt9"
    THEN Min2(Max2(leistung, self.min_leistung), self.max_leistung)
    ELSE Min2(Max2(leistung, self.min_heizleistung), self.max_heizleistung)

\* update_temperatur(leistung, zeitintervall) on the object; the record of
\* the call also holds what the same call with the power limited beforehand
\* does on the same object
Update(leistung, zeitintervall) ==
    /\ rk.cls # "none"
    /\ rkCalls < MaxUpdates
    /\ \E u \in {Bioreaktor_update(rk, leistung, zeitintervall)},
          g \in {Bioreaktor_update(rk, Bioreaktor_clip(rk, leistung), zeitintervall)} :
           /\ rk' = u.obj
           /\ rkLast' = [op |-> "update", pre |-> rk, leistung |-> leistung,
                         zeitintervall |-> zeitintervall, call |-> u, geklippt |-> g]
    /\ rkCalls' = rkCalls + 1
    /\ UNCHANGED coolprop
    /\ UNCHANGED pidVars

\* reset(t_start) on the object
ReaktorReset(t_start) ==
    /\ rk.cls # "none"
    /\ rkCalls < MaxUpdates
    /\ \E r \in {Bioreaktor_reset(rk, t_start)} :
           /\ rk' = r.obj
           /\ rkLast' = [op |-> "reset", pre |-> rk, t_start |-> t_start, raised |-> r.raised]
    /\ rkCalls' = rkCalls + 1
    /\ UNCHANGED coolprop
    /\ UNCHANGED pidVars

\* t_verlust() / berechnung_waermeverlust() on the object
Verlust ==
    /\ rk.cls # "none"
    /\ rkLast.op # "verlust"
    /\ rkLast' = [op |-> "verlust", pre |-> rk, result |-> Waermeverlust(rk)]
    /\ UNCHANGED <<rk, rkCalls, coolprop>>
    /\ UNCHANGED pidVars

ReaktorNext ==
    \/ \E cls \in Klassen, vol \in Volumina, t_start \in Starttemperaturen,
          t_umgebung \in Umgebungen, drehz \in Drehzahlen, wand \in Waende :
          Construct(cls, vol, t_start, t_umgebung, drehz, wand)
    \/ \E leistung \in Leistungen, zeitintervall \in Zeitintervalle :
          Update(leistung, zeitintervall)
    \/ \E t_start \in ResetArgs : ReaktorReset(t_start)
    \/ Verlust

SpecReaktor == ReaktorInit /\ [][ReaktorNext]_vars

(***************************************************************************)
(* Claims on the Bioreaktor.                                               *)
(***************************************************************************)
IsUpdate == rkLast.op = "update"
P9Update == IsUpdate /\ rkLast.pre.cls = "Projekt9"
Returned == IsUpdate /\ ~rkLast.call.raised

\* a state after update_temperatur(0, dt) has returned on a Projekt9 object
P9Unbeheizt == P9Update /\ ~rkLast.call.raised /\ rkLast.leistung = 0

\* C2: after every temperature update that returns, the stored and returned
\* temperature lies in the practical range: 4..100 degC for Projekt9.py,
\* -50..150 degC for Testprojekt.py
C2_TemperatureInRange ==
    Returned =>
        /\ Temperatur(rk) = rkLast.call.result
        /\ rkLast.pre.cls = "Projekt9" =>
               DegC(4) <= rkLast.call.result /\ rkLast.call.result <= DegC(100)
        /\ rkLast.pre.cls = "Testprojekt" =>
               DegC(-50) <= rkLast.call.result /\ rkLast.call.result <= DegC(150)

\* an update whose energy balance alone leaves the range and is limited
C2_Witness ==
    /\ Returned
    /\ rkLast.pre.cls = "Projekt9"
    /\ rkLast.pre.t_ist <= DegC(100)
    /\ rkLast.pre.t_ist + rkLast.call.temp_delta > DegC(100)
    /\ rk.t_ist = DegC(100)

\* the same for Testprojekt.py, at the lower limit
C2_WitnessTestprojekt ==
    /\ Returned
    /\ rkLast.pre.cls = "Testprojekt"
    /\ rkLast.pre.ist_temp + rkLast.call.temp_delta < DegC(-50)
    /\ rk.ist_temp = DegC(-50)

\* C7: on a Projekt9 object with t_ist = t_umgebung, whatever the common
\* value, update_temperatur(0, dt) leaves t_ist unchanged
C7_EquilibriumUnchanged ==
    P9Unbeheizt /\ rkLast.pre.t_ist = rkLast.pre.t_umgebung =>
        rk.t_ist = rkLast.pre.t_ist

\* C7, amended: on a Projekt9 object with t_ist = t_umgebung inside the
\* practical range 4..100 degC, update_temperatur(0, dt) leaves t_ist
\* unchanged
C7_EquilibriumUnchangedAmended ==
    /\ P9Unbeheizt
    /\ rkLast.pre.t_ist = rkLast.pre.t_umgebung
    /\ DegC(4) <= rkLast.pre.t_ist
    /\ rkLast.pre.t_ist <= DegC(100)
    => rk.t_ist = rkLast.pre.t_ist /\ rkLast.call.result = rkLast.pre.t_ist

C7_Witness ==
    /\ P9Unbeheizt
    /\ rkLast.pre.t_ist = rkLast.pre.t_umgebung
    /\ rkLast.pre.t_ist = DegC(20)
    /\ rk.t_ist = DegC(20)


\* C8: on a Projekt9 object with t_ist > t_umgebung, update_temperatur(0, dt)
\* returns a temperature strictly lower than before and not below t_umgebung
C8_CoolsTowardAmbient ==
    P9Unbeheizt /\ rkLast.pre.t_ist > rkLast.pre.t_umgebung =>
        /\ rkLast.call.result < rkLast.pre.t_ist
        /\ rkLast.call.result >= rkLast.pre.t_umgebung

\* what does hold of the unheated step: with a wall thickness that is not
\* negative, t_ist at least 0.01 K above t_umgebung and above 4 degC, the
\* returned temperature is strictly lower than before, and it is not below
\* t_umgebung when dt is at most half the time constant
\* r_gesamt * masse * spez_c and t_umgebung is at most 100 degC
CoolsWithinStability ==
    /\ P9Unbeheizt
    /\ rkLast.pre.wand_stk >= 0
    /\ rkLast.pre.t_ist - rkLast.pre.t_umgebung >= TS \div 100
    /\ rkLast.pre.t_ist > DegC(4)
    => /\ rkLast.call.result < rkLast.pre.t_ist
       /\ 2 * rkLast.zeitintervall <= rkLast.call.tau /\ rkLast.pre.t_umgebung <= DegC(100)
              => rkLast.call.result >= rkLast.pre.t_umgebung

\* reachable states that contradict C8: inside the epsilon guard the
\* temperature stays, and a long step carries it below the ambient
StaysInsideEpsilon ==
    /\ P9Unbeheizt
    /\ rkLast.pre.t_ist > rkLast.pre.t_umgebung
    /\ rkLast.pre.t_ist > DegC(4)
    /\ rk.t_ist = rkLast.pre.t_ist
Overshoots ==
    /\ P9Unbeheizt
    /\ rkLast.pre.wand_stk >= 0
    /\ rkLast.pre.t_ist > rkLast.pre.t_umgebung
    /\ rk.t_ist < rkLast.pre.t_umgebung

IsVerlust == rkLast.op = "verlust"
VerlustDelta == Temperatur(rkLast.pre) - Umgebung(rkLast.pre)

\* C9: t_verlust (Projekt9.py) and berechnung_waermeverlust (Testprojekt.py)
\* return exactly 0 when |internal - ambient| < 0.01, and otherwise a nonzero
\* value with the sign of (internal - ambient)
C9_HeatLossSign ==
    IsVerlust =>
        /\ Abs(VerlustDelta) < TS \div 100 => rkLast.result = 0
        /\ Abs(VerlustDelta) >= TS \div 100 =>
               rkLast.result # 0 /\ Sign(rkLast.result) = Sign(VerlustDelta)

\* what does hold of the heat loss: the same on the objects whose wall
\* thickness is positive
HeatLossSignPositiveWall ==
    IsVerlust /\ (rkLast.pre.cls = "Projekt9" => rkLast.pre.wand_stk > 0) =>
        /\ Abs(VerlustDelta) < TS \div 100 => rkLast.result = 0
        /\ Abs(VerlustDelta) >= TS \div 100 =>
               rkLast.result # 0 /\ Sign(rkLast.result) = Sign(VerlustDelta)

\* a Projekt9 object with a negative wall thickness, warmer than the
\* ambient, whose t_verlust() is negative
NegativeWall ==
    /\ IsVerlust
    /\ rkLast.pre.cls = "Projekt9"
    /\ rkLast.pre.wand_stk < 0
    /\ VerlustDelta >= TS \div 100
    /\ rkLast.result < 0

\* C10: on a Projekt9 object update_temperatur(p, dt) gives the same state
\* and return value (or the same exception) as update_temperatur with p
\* limited to [min_leistung, max_leistung] beforehand, and the power it
\* applies lies in [-1000, 2000] W
C10_PowerLimited ==
    P9Update =>
        /\ rkLast.call = rkLast.geklippt
        /\ ~rkLast.call.raised =>
               /\ Watt(-1000) <= rkLast.call.leistung
               /\ rkLast.call.leistung <= Watt(2000)

C10_Witness ==
    /\ P9Update
    /\ ~rkLast.call.raised
    /\ rkLast.leistung = Watt(9000)
    /\ rkLast.call.leistung = Watt(2000)
    /\ rk = rkLast.geklippt.obj
    /\ rk.t_ist > rkLast.pre.t_ist
    /\ rk.t_ist < DegC(100)

(***************************************************************************)
(* Reset of the controller.                                                *)
(***************************************************************************)
IsReset == pidLast.op = "reset"

\* C11: PID.reset of either class sets integral, fehler_vor and output_vor to
\* 0 from any state and leaves kp, ki, kd, dt, output_min, output_max and
\* integral_max (and the class of the object) unchanged.
C11_ResetFrame ==
    IsReset =>
        /\ pid.integral = R(0)
        /\ pid.fehler_vor = R(0)
        /\ pid.output_vor = R(0)
        /\ pid.kp = pidLast.pre.kp
        /\ pid.ki = pidLast.pre.ki
        /\ pid.kd = pidLast.pre.kd
        /\ pid.dt = pidLast.pre.dt
        /\ pid.output_min = pidLast.pre.output_min
        /\ pid.output_max = pidLast.pre.output_max
        /\ pid.integral_max = pidLast.pre.integral_max
        /\ pid.cls = pidLast.pre.cls
        /\ DOMAIN pid = DOMAIN pidLast.pre

\* a reset of a Projekt9 controller whose three state attributes were all
\* different from 0
C11_Witness ==
    /\ IsReset
    /\ pid.cls = "Projekt9"
    /\ pidLast.pre.integral # R(0)
    /\ pidLast.pre.fehler_vor # R(0)
    /\ pidLast.pre.output_vor # R(0)
    /\ pid.integral = R(0)

\* the same for a Testprojekt controller
C11_WitnessTestprojekt ==
    /\ IsReset
    /\ pid.cls = "Testprojekt"
    /\ pidLast.pre.integral # R(0)
    /\ pidLast.pre.fehler_vor # R(0)
    /\ pidLast.pre.output_vor # R(0)
    /\ pid.integral = R(0)

(***************************************************************************)
(* Repeated reset: the object under test is either a controller or a       *)
(* reactor, with the calls of its own state machine.  The controller's     *)
(* machine is marked by coolprop = "none": it never looks up a property.   *)
(***************************************************************************)
ResetInit == WindupInit \/ ReaktorInit

ResetNext ==
    \/ coolprop = "none" /\ WindupNext
    \/ coolprop # "none" /\ ReaktorNext

SpecReset == ResetInit /\ [][ResetNext]_vars

IsReaktorReset == rkLast.op = "reset"

\* C12: reset is idempotent.  In the state left by PID.reset(), a second
\* reset() changes nothing; in the state left by Bioreaktor.reset(v) of
\* Projekt9.py with an explicit v, a second reset(v) ends the same way
\* (returns or raises) and leaves every field of the reactor as it is.
C12_ResetIdempotent ==
    /\ IsReset => PID_reset(pid) = pid
    /\ (IsReaktorReset /\ rk.cls = "Projekt9" /\ rkLast.t_start # None) =>
           \E r \in {P9_Bioreaktor_reset(rk, rkLast.t_start)} :
               /\ r.obj = rk
               /\ r.raised = rkLast.raised

\* a reset(v) of a Projekt9 reactor that changed the temperature and the
\* stored fluid properties
C12_Witness ==
    /\ IsReaktorReset
    /\ rk.cls = "Projekt9"
    /\ rkLast.t_start # None
    /\ rkLast.pre.t_ist # rk.t_ist
    /\ rkLast.pre.mu # rk.mu
    /\ rk.t_ist = rkLast.t_start[1]

\* a reset() of a controller that changed its state
C12_WitnessPID ==
    /\ IsReset
    /\ pidLast.pre.integral # R(0)
    /\ pid.integral = R(0)

(***************************************************************************)
(* Construction with arbitrary arguments.  Nothing is constructed at       *)
(* first; one constructor call is made, of a controller or of a reactor,   *)
(* with arguments that include the ones a validation would reject, and     *)
(* the object, if there is one, is then used.  The property lookup may     *)
(* start to fail at any moment.                                            *)
(***************************************************************************)
\* run on a Projekt9 controller with dt == 0, called with Python numbers:
\* the integral is accumulated and clipped, then the division by self.dt in
\* the derivative term raises ZeroDivisionError
P9_PID_run_dt0(p, sollwert, istwert) ==
    [raised |-> TRUE,
     obj |-> [p EXCEPT !.integral = P9_integral_clip(p, RSub(sollwert, istwert))]]

\* PID(kp, ki, kd, dt, output_min, output_max) of either class
PID_init(cls, kp, ki, kd, dt, output_min, output_max) ==
    IF cls = "Projekt9"
    THEN [raised |-> FALSE, obj |-> P9_PID_init(kp, ki, kd, dt, output_min, output_max)]
    ELSE TP_PID_init(kp, ki, kd, dt, output_min, output_max)

\* run(sollwert, istwert) on any constructed controller
PID_run_call(p, sollwert, istwert) ==
    IF p.dt = R(0) THEN P9_PID_run_dt0(p, sollwert, istwert)
    ELSE [raised |-> FALSE, obj |-> PID_run(p, sollwert, istwert).obj]

RobustKps == {R(1)}
RobustKis == {R(0), R(1)}
RobustKds == {R(0), R(2)}
RobustDts == {R(-1), R(0), R(1)}
RobustBounds == {<<R(-10), R(20)>>}
RobustSollwerte == {R(37)}
RobustIstwerte == {R(16), R(58)}

RobustVolumina == {-5, 0, 10}
AbsoluterNullpunkt == DegC(-273) - 15000
RobustStarttemperaturen == {DegC(-300), DegC(20), DegC(60), DegC(130)}
RobustUmgebungen == {DegC(20)}
RobustDrehzahlen == {-60, 0, 15, 100}
RobustWaende == {<<"stahl", 5>>, <<"stahl", 0>>, <<"glas", -3>>}
RobustLeistungen == {0, Watt(9000)}
RobustZeitintervalle == {5}
RobustResetArgs == {Some(DegC(20))}
RobustCoolProps == CoolProps \cup {"fails"}

NichtsKonstruiert ==
    /\ pid.cls = "none" /\ pidLast.op = "none"
    /\ rk.cls = "none" /\ rkLast.op = "none"

RobustInit ==
    /\ pid = [cls |-> "none"]
    /\ pidLast = [op |-> "none"]
    /\ pidCalls = 0
    /\ satN = NoSat
    /\ satPrev = NoSat
    /\ rk = [cls |-> "none"]
    /\ rkLast = [op |-> "none"]
    /\ rkCalls = 0
    /\ coolprop \in RobustCoolProps

\* the constructor call of a controller; when it raises there is no object
PIDConstruct(cls, kp, ki, kd, dt, b) ==
    /\ NichtsKonstruiert
    /\ \E c \in {PID_init(cls, kp, ki, kd, dt, b[1], b[2])} :
           /\ pid' = IF c.raised THEN pid ELSE c.obj
           /\ pidLast' = [op |-> "init", cls |-> cls, dt |-> dt, raised |-> c.raised]
    /\ UNCHANGED <<pidCalls, satN, satPrev>>
    /\ UNCHANGED rkVars

\* run(sollwert, istwert) on the constructed controller; divisor is the dt
\* the derivative term divides by
RobustRun(sollwert, istwert) ==
    /\ pid.cls # "none"
    /\ pidCalls < MaxCalls
    /\ \E r \in {PID_run_call(pid, sollwert, istwert)} :
           /\ pid' = r.obj
           /\ pidLast' = [op |-> "run", pre |-> pid, sollwert |-> sollwert,
                          istwert |-> istwert, divisor |-> pid.dt,
                          raised |-> r.raised]
    /\ pidCalls' = pidCalls + 1
    /\ UNCHANGED <<satN, satPrev>>
    /\ UNCHANGED rkVars

\* the constructor call of a reactor
RobustConstruct(cls, vol, t_start, t_umgebung, drehz, wand) ==
    /\ NichtsKonstruiert
    /\ Construct(cls, vol, t_start, t_umgebung, drehz, wand)

\* from now on the property lookup fails
Ausfall ==
    /\ rk.cls # "none"
    /\ coolprop # "fails"
    /\ coolprop' = "fails"
    /\ rkLast' = [op |-> "ausfall"]
    /\ UNCHANGED <<rk, rkCalls>>
    /\ UNCHANGED pidVars

RobustNext ==
    \/ \E cls \in Klassen, kp \in RobustKps, ki \in RobustKis, kd \in RobustKds,
          dt \in RobustDts, b \in RobustBounds :
          PIDConstruct(cls, kp, ki, kd, dt, b)
    \/ \E s \in RobustSollwerte, i \in RobustIstwerte : RobustRun(s, i)
    \/ \E cls \in Klassen, vol \in RobustVolumina, t_start \in RobustStarttemperaturen,
          t_umgebung \in RobustUmgebungen, drehz \in RobustDrehzahlen,
          wand \in RobustWaende :
          RobustConstruct(cls, vol, t_start, t_umgebung, drehz, wand)
    \/ \E leistung \in RobustLeistungen, zeitintervall \in RobustZeitintervalle :
          Update(leistung, zeitintervall)
    \/ \E t_start \in RobustResetArgs : ReaktorReset(t_start)
    \/ Verlust
    \/ Ausfall

SpecRobust == RobustInit /\ [][RobustNext]_vars

\* C13: no controller object with dt <= 0 exists, of either class, and no run
\* call divides by a dt <= 0.
C13_NoNonPositiveDt ==
    /\ pid.cls # "none" => RLt(R(0), pid.dt)
    /\ pidLast.op = "run" => RLt(R(0), pidLast.divisor)

\* what holds: the Testprojekt constructor raises for dt <= 0 and leaves no
\* object, so every Testprojekt controller has dt > 0
PIDTestprojektRejects ==
    /\ pid.cls = "Testprojekt" => RLt(R(0), pid.dt)
    /\ (pidLast.op = "init" /\ pidLast.cls = "Testprojekt" /\ RLe(pidLast.dt, R(0))) =>
           pidLast.raised /\ pid.cls = "none"
    /\ (pidLast.op = "run" /\ pidLast.pre.cls = "Testprojekt") =>
           RLt(R(0), pidLast.divisor)

\* reachable: a Projekt9 controller constructed with dt == 0 whose run raised
P9ZeroDtRunRaises ==
    /\ pidLast.op = "run"
    /\ pidLast.pre.cls = "Projekt9"
    /\ pidLast.divisor = R(0)
    /\ pidLast.raised

\* reachable: a Projekt9 controller constructed with dt < 0 whose run returned
P9NegativeDtRunReturns ==
    /\ pidLast.op = "run"
    /\ pidLast.pre.cls = "Projekt9"
    /\ RLt(pidLast.divisor, R(0))
    /\ ~pidLast.raised

\* C14: every reactor object that exists was constructed with a positive
\* volume, a positive wall thickness, a non-negative stirrer speed and a
\* start temperature not below -273.15 degC, in both classes; a constructor
\* call with any other arguments raised and left no object.
C14_InvalidRejected ==
    /\ rk.cls = "Projekt9" =>
           /\ rk.reaktor_vol > 0
           /\ rk.wand_stk > 0
           /\ rk.drehz >= 0
           /\ rk.t_start >= AbsoluterNullpunkt
    /\ rk.cls = "Testprojekt" =>
           /\ rk.volumen > 0
           /\ rk.wandstaerke > 0
           /\ rk.rpm >= 0
           /\ rk.start_temp >= AbsoluterNullpunkt
    /\ (/\ rkLast.op = "init"
        /\ \/ rkLast.vol <= 0
           \/ rkLast.wand_stk <= 0
           \/ rkLast.drehz < 0
           \/ rkLast.t_start < AbsoluterNullpunkt) =>
           rkLast.raised /\ rk.cls = "none"

\* what holds: the Testprojekt constructor rejects all four, the Projekt9
\* constructor fails for a volume that is not positive
ReaktorTestprojektRejects ==
    /\ rk.cls = "Testprojekt" =>
           /\ rk.volumen > 0
           /\ rk.wandstaerke > 0
           /\ rk.rpm >= 0
           /\ rk.start_temp >= AbsoluterNullpunkt
    /\ rk.cls = "Projekt9" => rk.reaktor_vol > 0
    /\ (/\ rkLast.op = "init"
        /\ \/ rkLast.vol <= 0
           \/ /\ rkLast.cls = "Testprojekt"
              /\ \/ rkLast.wand_stk <= 0
                 \/ rkLast.drehz < 0
                 \/ rkLast.t_start < AbsoluterNullpunkt) =>
           rkLast.raised /\ rk.cls = "none"

\* reachable: a Projekt9 reactor with a negative stirrer speed, a wall of
\* thickness 0 and a start temperature below absolute zero, on which
\* update_temperatur returned
P9InvalidReaktorUpdated ==
    /\ Returned
    /\ rk.cls = "Projekt9"
    /\ rk.drehz < 0
    /\ rk.wand_stk <= 0
    /\ rk.t_start < AbsoluterNullpunkt

\* the update of the last call ran while the property lookup was failing
UpdateBeiAusfall == IsUpdate /\ coolprop = "fails"

\* C15: with a property lookup that may fail at any temperature, a
\* temperature update of a constructed reactor of either class never
\* propagates the failure: it returns a temperature, and the fluid
\* properties it has stored are the fixed fallback constants.
C15_NoPropagation ==
    /\ IsUpdate => ~rkLast.call.raised
    /\ (UpdateBeiAusfall /\ rk.cls = "Projekt9") =>
           /\ rk.spez_c = 4185 /\ rk.dichte = 998000
           /\ rk.k = 599 /\ rk.mu = 1002
    /\ (UpdateBeiAusfall /\ rk.cls = "Testprojekt") =>
           /\ rk.spez_c = 4186 /\ rk.dichte = 1000000
           /\ rk.h_intern = 500

\* what holds: update_temperature of Testprojekt.py never propagates a
\* failure and stores the fallback constants when the lookup fails
TestprojektNeverPropagates ==
    /\ (IsUpdate /\ rk.cls = "Testprojekt") =>
           /\ ~rkLast.call.raised
           /\ rkLast.call.result = rk.ist_temp
    /\ (UpdateBeiAusfall /\ rk.cls = "Testprojekt") =>
           /\ rk.spez_c = 4186 /\ rk.dichte = 1000000
           /\ rk.h_intern = 500

\* reachable: update_temperatur of Projekt9.py raised the failure of the
\* lookup at a temperature between 0 and 100 degC and left the object as it
\* was
P9UpdatePropagates ==
    /\ P9Update /\ UpdateBeiAusfall
    /\ 0 < rkLast.pre.t_ist /\ rkLast.pre.t_ist < DegC(100)
    /\ rkLast.call.raised
    /\ rk = rkLast.pre

\* reachable: update_temperature of Testprojekt.py returned while the lookup
\* was failing
TestprojektUpdateBeiAusfall ==
    /\ UpdateBeiAusfall /\ rk.cls = "Testprojekt"
    /\ ~rkLast.call.raised

(***************************************************************************)
(* Order of evaluation inside update_temperatur.                           *)
(***************************************************************************)
\* the object of the last update with the properties and h_int that belong
\* to the temperature t, or Raises
P9_bei_temperatur(self, t) ==
    LET w == P9_update_stoffwerte(t)
    IN  IF w.raises THEN Raises
        ELSE [raises |-> FALSE, obj |-> P9_mit_h_int(mit_stoffwerten(self, w))]

\* C16: when update_temperatur of Projekt9.py has returned, the stored
\* spez_c, dichte, k, mu and h_int are those of the temperature before the
\* step, and the heat loss and the temperature increment of the step were
\* computed from them at the temperature before the step.
C16_PreStepProperties ==
    (P9Update /\ Returned) =>
        \E v \in {P9_bei_temperatur(rkLast.pre, rkLast.pre.t_ist)} :
            /\ ~v.raises
            /\ rk = [v.obj EXCEPT !.t_ist = rk.t_ist]
            /\ rkLast.call.q_verlust = P9_t_verlust(v.obj)
            /\ rkLast.call.temp_delta =
                   temp_delta_of(rkLast.call.leistung - rkLast.call.q_verlust,
                                 rkLast.zeitintervall,
                                 MulDiv(v.obj.dichte * v.obj.reaktor_vol,
                                        v.obj.spez_c, 1000))
            /\ rk.t_ist = P9_grenzen(rkLast.pre.t_ist + rkLast.call.temp_delta)

\* an update that returned a temperature whose fluid properties and h_int
\* differ from the stored ones, which are those of the temperature before
C16_Witness ==
    /\ P9Update /\ Returned
    /\ rk.t_ist # rkLast.pre.t_ist
    /\ rkLast.call.q_verlust # 0
    /\ \E n \in {P9_bei_temperatur(rk, rk.t_ist)} :
           /\ ~n.raises
           /\ n.obj.mu # rk.mu
           /\ n.obj.spez_c # rk.spez_c
           /\ n.obj.h_int # rk.h_int

\* C17: in every reachable state the internal heat-transfer coefficient of a
\* reactor is at least 150 W/(m^2 K) in Projekt9.py and at least 100 in
\* Testprojekt.py, whatever the temperature, the stirrer speed (0 included)
\* and the outcome of the property lookup.
C17_HIntPositive ==
    /\ rk.cls = "Projekt9" => rk.h_int >= 150
    /\ rk.cls = "Testprojekt" => rk.h_intern >= 100

\* an update of a Projekt9 reactor with the stirrer at rest, where the
\* correlation gives less than the minimum and 150 is stored
C17_Witness ==
    /\ P9Update /\ Returned
    /\ rk.drehz = 0
    /\ P9_berech_h_int_ohne_minimum(rk) < 150
    /\ rk.h_int = 150

\* the same for Testprojekt, minimum 100
C17_WitnessTestprojekt ==
    /\ IsUpdate /\ rk.cls = "Testprojekt"
    /\ rk.rpm = 0
    /\ rk.h_intern = 100

\* an update of a Testprojekt reactor during a failing lookup: 500
C17_WitnessAusfall ==
    /\ UpdateBeiAusfall /\ rk.cls = "Testprojekt"
    /\ rk.h_intern = 500

\* a coefficient above the minimum, from the turbulent correlation
C17_WitnessTurbulent ==
    /\ P9Update /\ Returned
    /\ rk.h_int > 150

(***************************************************************************)
(* Selection of the Nusselt correlation: the regime branch of either       *)
(* class, applied to Reynolds numbers (unit 1) and Prandtl numbers (unit   *)
(* 1/1000) on and next to every boundary of the branch conditions.         *)
(***************************************************************************)
ReynoldsZahlen == {0, 9, 10, 11, 4499, 4500, 4501, 7000, 9999, 10000, 10001, 50000}
PrandtlZahlen == {0, 599, 600, 601, 7000, 159999, 160000, 160001}

\* the branch of berech_h_int / berechnung_h taken for (Re, Pr)
Bioreaktor_regime(cls, Re, Pr) ==
    IF cls = "Projekt9" THEN P9_regime(Re, Pr) ELSE TP_regime(Re, Pr)

\* the Nusselt number of that branch, in 1/1000
Bioreaktor_Nu(cls, Re, Pr) ==
    IF cls = "Projekt9" THEN P9_Nu(Re, Pr) ELSE TP_Nu(Re, Pr)

RegimeInit ==
    /\ pid = [cls |-> "none"]
    /\ pidLast = [op |-> "none"]
    /\ pidCalls = 0
    /\ satN = NoSat
    /\ satPrev = NoSat
    /\ rk = [cls |-> "none"]
    /\ rkLast = [op |-> "none"]
    /\ rkCalls = 0
    /\ coolprop = "returns"

\* the branch selection of one call, for the numbers Re and Pr
Regime(cls, Re, Pr) ==
    /\ rkLast' = [op |-> "regime", cls |-> cls, Re |-> Re, Pr |-> Pr,
                  zweig |-> Bioreaktor_regime(cls, Re, Pr),
                  Nu |-> Bioreaktor_Nu(cls, Re, Pr)]
    /\ UNCHANGED <<rk, rkCalls, coolprop>>
    /\ UNCHANGED pidVars

RegimeNext ==
    \E cls \in Klassen, Re \in ReynoldsZahlen, Pr \in PrandtlZahlen : Regime(cls, Re, Pr)

SpecRegime == RegimeInit /\ [][RegimeNext]_vars

IsRegime == rkLast.op = "regime"

\* the band of the claim: 4500 < Re < 10000 and 0.6 < Pr < 160
ImBand(Re, Pr) == 4500 < Re /\ Re < 10000 /\ 600 < Pr /\ Pr < 160000

\* C18: in both classes the correlation Nu = 0.354 Re^0.714 Pr^0.260 is
\* selected exactly when 4500 < Re < 10000 and 0.6 < Pr < 160, all four
\* bounds strict, and every pair (Re, Pr) selects exactly one branch.
C18_TransitionalBand ==
    IsRegime =>
        /\ rkLast.zweig = "uebergang" <=> ImBand(rkLast.Re, rkLast.Pr)
        /\ rkLast.zweig = "uebergang" => rkLast.Nu = Nu_uebergang(rkLast.Re, rkLast.Pr)
        /\ rkLast.zweig \in {"ruhend", "laminar", "uebergang", "turbulent", "sonst"}

\* what holds: Projekt9.py selects the correlation exactly in the band,
\* Testprojekt.py exactly in the band and on its lower edge Re == 4500
TransitionalBandOfCode ==
    IsRegime =>
        /\ rkLast.cls = "Projekt9" =>
               (rkLast.zweig = "uebergang" <=> ImBand(rkLast.Re, rkLast.Pr))
        /\ rkLast.cls = "Testprojekt" =>
               (rkLast.zweig = "uebergang" <=>
                    \/ ImBand(rkLast.Re, rkLast.Pr)
                    \/ rkLast.Re = 4500 /\ 600 < rkLast.Pr /\ rkLast.Pr < 160000)
        /\ rkLast.zweig = "uebergang" => rkLast.Nu = Nu_uebergang(rkLast.Re, rkLast.Pr)

\* reachable: Testprojekt.py selects the correlation outside the band
TestprojektAmUnterenRand ==
    /\ IsRegime
    /\ rkLast.cls = "Testprojekt"
    /\ rkLast.Re = 4500
    /\ rkLast.zweig = "uebergang"
    /\ ~ImBand(rkLast.Re, rkLast.Pr)

(***************************************************************************)
(* The simulation loop of Projekt9.py.  pid is the controller, rk holds    *)
(* the two reactors, reaktor_pid and reaktor_ungeregelt, and rkLast the    *)
(* position in the script (pc), the settings of the sidebar (e), the       *)
(* two reactors as the current tick found them (vor), the locals of the    *)
(* loop and the lists it appends to.  The loop runs n_steps ticks; the     *)
(* model follows the first MaxTicks of them.  The two reactor statements   *)
(* of a tick are executed in the order of the script, or, with             *)
(* vertauscht, in the opposite order.                                      *)
(***************************************************************************)
MaxTicks == 2

\* the settings of the sidebar
Einstellungen ==
    [reaktor_vol : {5}, t_start : {5, 20, 40}, t_umgebung : {5, 20, 40},
     wand : {<<"stahl", 5>>, <<"glas", 5>>}, drehz : {100},
     soll_temp : {25, 37}, dt : {5, 30},
     kp : {R(50)}, ki : {R(1)}, kd : {R(0), R(5)}]

\* a temperature of the reactor as the number passed to the controller
Schleife_istwert_start(reaktor) == Q(reaktor.t_start, TS)
Schleife_istwert(reaktor) == Q(reaktor.t_ist, TS)

\* a power returned by the controller, in W, as the power in mW passed to
\* the reactor
Schleife_leistung(output) == MulDiv(output[1], 1000, output[2])

SchleifeInit ==
    /\ pid = [cls |-> "none"]
    /\ pidLast = [op |-> "none"]
    /\ pidCalls = 0
    /\ satN = NoSat
    /\ satPrev = NoSat
    /\ rk = [cls |-> "none"]
    /\ rkLast = [op |-> "none"]
    /\ rkCalls = 0
    /\ coolprop \in CoolProps

\* the three constructor calls
SchleifeKonstruktion(e, vertauscht) ==
    /\ rkLast.op = "none"
    /\ \E b \in {P9_Bioreaktor_init(e.reaktor_vol, DegC(e.t_start), DegC(e.t_umgebung),
                                    e.drehz, e.wand[1], e.wand[2])} :
           /\ ~b.raised
           /\ rk' = [cls |-> "schleife", reaktor_pid |-> b.obj,
                     reaktor_ungeregelt |-> b.obj]
    /\ pid' = P9_PID_init(e.kp, e.ki, e.kd, R(e.dt), R(-1000), R(2000))
    /\ rkLast' = [op |-> "schleife", pc |-> "startwerte", e |-> e,
                  vertauscht |-> vertauscht, i |-> 0,
                  leistung |-> 0, t_pid |-> 0, t_offen |-> 0,
                  update_tick |-> -1, update_run_tick |-> -1,
                  vor |-> [cls |-> "none"],
                  temps_pid |-> <<>>, temps_offen |-> <<>>, leistungen |-> <<>>,
                  sollwerte |-> <<>>]
    /\ UNCHANGED <<pidLast, pidCalls, satN, satPrev, rkCalls, coolprop>>

\* reaktor_pid.reset(t_start); pid.reset(); reaktor_ungeregelt.reset(t_start)
Startwerte ==
    /\ rkLast.op = "schleife"
    /\ rkLast.pc = "startwerte"
    /\ \E a \in {P9_Bioreaktor_reset(rk.reaktor_pid, Some(DegC(rkLast.e.t_start)))},
          b \in {P9_Bioreaktor_reset(rk.reaktor_ungeregelt, Some(DegC(rkLast.e.t_start)))} :
           /\ rk' = [rk EXCEPT !.reaktor_pid = a.obj, !.reaktor_ungeregelt = b.obj]
           /\ rkLast' = [rkLast EXCEPT
                             !.pc = IF a.raised \/ b.raised THEN "abgebrochen" ELSE "run"]
    /\ pid' = P9_PID_reset(pid)
    /\ pidLast' = [op |-> "reset", tick |-> -1]
    /\ UNCHANGED <<pidCalls, satN, satPrev, rkCalls, coolprop>>

\* leistung = pid.run(t_soll, reaktor_pid.t_ist)
SchleifeRun ==
    /\ rkLast.op = "schleife"
    /\ rkLast.pc = "run"
    /\ rkLast.i < MaxTicks
    /\ \E r \in {P9_PID_run(pid, R(rkLast.e.soll_temp), Schleife_istwert(rk.reaktor_pid))} :
           /\ pid' = r.obj
           /\ pidLast' = [op |-> "run", tick |-> rkLast.i,
                          sollwert |-> R(rkLast.e.soll_temp),
                          istwert |-> Schleife_istwert(rk.reaktor_pid),
                          output |-> r.output]
    /\ rkLast' = [rkLast EXCEPT
                      !.pc = IF rkLast.vertauscht THEN "ungeregelt" ELSE "geregelt",
                      !.vor = rk]
    /\ pidCalls' = pidCalls + 1
    /\ UNCHANGED <<rk, satN, satPrev, rkCalls, coolprop>>

\* t_pid = reaktor_pid.update_temperatur(leistung, dt)
SchleifeGeregelt ==
    /\ rkLast.op = "schleife"
    /\ rkLast.pc = "geregelt"
    /\ \E u \in {P9_update_temperatur(rk.reaktor_pid, Schleife_leistung(pidLast.output),
                                      rkLast.e.dt)} :
           /\ rk' = [rk EXCEPT !.reaktor_pid = u.obj]
           /\ rkLast' =
                  IF u.raised THEN [rkLast EXCEPT !.pc = "abgebrochen"]
                  ELSE [rkLast EXCEPT
                            !.pc = IF rkLast.vertauscht THEN "speichern" ELSE "ungeregelt",
                            !.leistung = Schleife_leistung(pidLast.output),
                            !.t_pid = u.result,
                            !.update_tick = rkLast.i,
                            !.update_run_tick = pidLast.tick]
    /\ rkCalls' = rkCalls + 1
    /\ UNCHANGED <<coolprop>>
    /\ UNCHANGED pidVars

\* mutant: both names refer to one reactor object
SchleifeUngeregelt_alias ==
    /\ rkLast.op = "schleife"
    /\ rkLast.pc = "ungeregelt"
    /\ \E u \in {P9_update_temperatur(rk.reaktor_pid, 0, rkLast.e.dt)} :
           /\ rk' = [rk EXCEPT !.reaktor_pid = u.obj, !.reaktor_ungeregelt = u.obj]
           /\ rkLast' =
                  IF u.raised THEN [rkLast EXCEPT !.pc = "abgebrochen"]
                  ELSE [rkLast EXCEPT
                            !.pc = IF rkLast.vertauscht THEN "geregelt" ELSE "speichern",
                            !.t_offen = u.result]
    /\ rkCalls' = rkCalls + 1
    /\ UNCHANGED <<coolprop>>
    /\ UNCHANGED pidVars

\* mutant: the uncontrolled reactor is given the controller's power
SchleifeUngeregelt_mit_leistung ==
    /\ rkLast.op = "schleife"
    /\ rkLast.pc = "ungeregelt"
    /\ \E u \in {P9_update_temperatur(rk.reaktor_ungeregelt,
                                      Schleife_leistung(pidLast.output), rkLast.e.dt)} :
           /\ rk' = [rk EXCEPT !.reaktor_ungeregelt = u.obj]
           /\ rkLast' =
                  IF u.raised THEN [rkLast EXCEPT !.pc = "abgebrochen"]
                  ELSE [rkLast EXCEPT
                            !.pc = IF rkLast.vertauscht THEN "geregelt" ELSE "speichern",
                            !.t_offen = u.result]
    /\ rkCalls' = rkCalls + 1
    /\ UNCHANGED <<coolprop>>
    /\ UNCHANGED pidVars

\* t_offen = reaktor_ungeregelt.update_temperatur(0, dt)
SchleifeUngeregelt ==
    /\ rkLast.op = "schleife"
    /\ rkLast.pc = "ungeregelt"
    /\ \E u \in {P9_update_temperatur(rk.reaktor_ungeregelt, 0, rkLast.e.dt)} :
           /\ rk' = [rk EXCEPT !.reaktor_ungeregelt = u.obj]
           /\ rkLast' =
                  IF u.raised THEN [rkLast EXCEPT !.pc = "abgebrochen"]
                  ELSE [rkLast EXCEPT
                            !.pc = IF rkLast.vertauscht THEN "geregelt" ELSE "speichern",
                            !.t_offen = u.result]
    /\ rkCalls' = rkCalls + 1
    /\ UNCHANGED <<coolprop>>
    /\ UNCHANGED pidVars

\* the four append calls and the step to the next tick
Speichern ==
    /\ rkLast.op = "schleife"
    /\ rkLast.pc = "speichern"
    /\ rkLast' = [rkLast EXCEPT
                      !.pc = "run",
                      !.i = rkLast.i + 1,
                      !.temps_pid = Append(rkLast.temps_pid, rkLast.t_pid),
                      !.temps_offen = Append(rkLast.temps_offen, rkLast.t_offen),
                      !.leistungen = Append(rkLast.leistungen, pidLast.output),
                      !.sollwerte = Append(rkLast.sollwerte, rkLast.e.soll_temp)]
    /\ UNCHANGED <<rk, rkCalls, coolprop>>
    /\ UNCHANGED pidVars

SchleifeNext ==
    \/ \E e \in Einstellungen, vertauscht \in BOOLEAN : SchleifeKonstruktion(e, vertauscht)
    \/ Startwerte
    \/ SchleifeRun
    \/ SchleifeGeregelt
    \/ SchleifeUngeregelt
    \/ Speichern

SpecSchleife == SchleifeInit /\ [][SchleifeNext]_vars

IsSchleife == rkLast.op = "schleife"

\* C19: when both reactors have been updated in a tick, in the order of the
\* script or in the opposite order, each reactor is in the state that its
\* own update gives from its own state when the tick began (vor), and the values
\* recorded for the tick are the results of these two updates; the order
\* has no influence.
C19_OrderIndependent ==
    (IsSchleife /\ rkLast.pc = "speichern") =>
        \E a \in {P9_update_temperatur(rkLast.vor.reaktor_pid,
                                       Schleife_leistung(pidLast.output), rkLast.e.dt)},
           b \in {P9_update_temperatur(rkLast.vor.reaktor_ungeregelt,
                                       0, rkLast.e.dt)} :
            /\ ~a.raised /\ ~b.raised
            /\ rk.reaktor_pid = a.obj
            /\ rk.reaktor_ungeregelt = b.obj
            /\ rkLast.t_pid = a.result
            /\ rkLast.t_offen = b.result

\* the end of the second tick with the statements in the opposite order,
\* the two reactors in different states
C19_Witness ==
    /\ IsSchleife /\ rkLast.pc = "speichern"
    /\ rkLast.vertauscht
    /\ rkLast.i = 1
    /\ rkLast.t_pid # rkLast.t_offen
    /\ rkLast.t_offen # rkLast.temps_offen[1]
    /\ rk.reaktor_pid # rkLast.vor.reaktor_pid
    /\ rk.reaktor_ungeregelt # rkLast.vor.reaktor_ungeregelt

\* the same in the order of the script
C19_WitnessSkript ==
    /\ IsSchleife /\ rkLast.pc = "speichern"
    /\ ~rkLast.vertauscht
    /\ rkLast.i = 1
    /\ rkLast.t_pid # rkLast.t_offen
    /\ rkLast.t_offen # rkLast.temps_offen[1]

\* the controlled reactor has been updated in the current tick
GeregeltFertig == IsSchleife /\ rkLast.update_tick = rkLast.i /\ rkLast.pc # "abgebrochen"

\* C20: in every tick pid.run is called before update_temperatur of the
\* controlled reactor; the measurement passed to run is the temperature the
\* update of the tick before left (the start temperature of the reset calls
\* in the first tick), and the power passed to update_temperatur is the
\* value run returned in the same tick.
C20_RunBeforeUpdate ==
    IsSchleife =>
        /\ rkLast.pc = "run" => rkLast.update_tick < rkLast.i
        /\ rkLast.pc \in {"geregelt", "ungeregelt", "speichern"} =>
               pidLast.op = "run" /\ pidLast.tick = rkLast.i
        /\ rkLast.update_tick >= 0 => rkLast.update_run_tick = rkLast.update_tick
        /\ pidLast.op = "run" =>
               pidLast.istwert =
                   IF pidLast.tick = 0 THEN R(rkLast.e.t_start)
                   ELSE Q(rkLast.temps_pid[pidLast.tick], TS)
        /\ GeregeltFertig =>
               /\ pidLast.op = "run" /\ pidLast.tick = rkLast.i
               /\ rkLast.leistung = Schleife_leistung(pidLast.output)
        /\ \A n \in 1..Len(rkLast.leistungen) :
               n = pidLast.tick + 1 => rkLast.leistungen[n] = pidLast.output

\* the controlled reactor updated in the second tick with a power below the
\* maximum, after a run that measured the temperature left by the first tick
C20_Witness ==
    /\ GeregeltFertig
    /\ rkLast.i = 1
    /\ pidLast.istwert = Q(rkLast.temps_pid[1], TS)
    /\ pidLast.istwert # R(rkLast.e.t_start)
    /\ rkLast.leistung > 0
    /\ rkLast.leistung < Watt(2000)
    /\ rkLast.t_pid # rkLast.temps_pid[1]

(***************************************************************************)
(* The first run call after construction or after reset.                   *)
(***************************************************************************)
\* the last call was a run that directly followed the constructor or a reset
ErsterRun == IsRun /\ pidLast.vorher \in {"init", "reset"}

\* C23: the first run call after construction or after reset computes the
\* derivative term against a previous error of zero, D = kd*(sollwert -
\* istwert)/dt, whatever calls were made before the reset.
C23_FirstDerivative ==
    ErsterRun =>
        pidLast.d_anteil =
            RDiv(RMul(pid.kd, RSub(pidLast.sollwert, pidLast.istwert)), pid.dt)

\* a Projekt9 run after a reset that followed a run with a non-zero error,
\* with kd > 0 and a non-zero derivative term
C23_Witness ==
    /\ ErsterRun
    /\ pidLast.vorher = "reset"
    /\ pidCalls = 3
    /\ pid.cls = "Projekt9"
    /\ RLt(R(0), pid.kd)
    /\ pidLast.d_anteil # R(0)
    /\ pidLast.pre.fehler_vor = R(0)

\* the same for the controller of Testprojekt.py
C23_WitnessTestprojekt ==
    /\ ErsterRun
    /\ pidLast.vorher = "reset"
    /\ pidCalls = 3
    /\ pid.cls = "Testprojekt"
    /\ RLt(R(0), pid.kd)
    /\ pidLast.d_anteil # R(0)

\* a run that is not the first one computes the derivative against the error
\* of the run before, which differs from the derivative against zero
ZweiterRunGegenVorher ==
    /\ IsRun
    /\ pidLast.vorher = "run"
    /\ pidLast.pre.fehler_vor # R(0)
    /\ pidLast.d_anteil #
           RDiv(RMul(pid.kd, RSub(pidLast.sollwert, pidLast.istwert)), pid.dt)

(***************************************************************************)
(* A controller after reset and a newly constructed one.                   *)
(***************************************************************************)
\* PID(kp, ki, kd, dt, output_min, output_max) of Projekt9.py with the
\* parameters of the controller p
NeuKonstruiert(p) ==
    P9_PID_init(p.kp, p.ki, p.kd, p.dt, p.output_min, p.output_max)

\* the outputs of two run calls on the controller p
ZweiAusgaben(p, s1, i1, s2, i2) ==
    <<P9_PID_run(p, s1, i1).output,
      P9_PID_run(P9_PID_run(p, s1, i1).obj, s2, i2).output>>

\* C28: after reset() a Projekt9 controller, whatever run calls it has
\* processed, is in the state of a newly constructed controller with the same
\* gains, dt and output bounds, and so returns the same outputs for every
\* subsequent sequence of inputs (restated for the sequences of two calls).
C28_ResetAsNew ==
    (IsReset /\ pid.cls = "Projekt9") =>
        /\ pid = NeuKonstruiert(pid)
        /\ \A s1 \in Sollwerte, i1 \in Istwerte, s2 \in Sollwerte, i2 \in Istwerte :
               ZweiAusgaben(pid, s1, i1, s2, i2)
                   = ZweiAusgaben(NeuKonstruiert(pid), s1, i1, s2, i2)

\* a reset after two run calls that left a non-zero integral, a non-zero
\* previous error and a non-zero last output, with ki > 0 and kd > 0
C28_Witness ==
    /\ IsReset /\ pid.cls = "Projekt9"
    /\ pidCalls = 3
    /\ pidLast.pre.integral # R(0)
    /\ pidLast.pre.fehler_vor # R(0)
    /\ pidLast.pre.output_vor # R(0)
    /\ RLt(R(0), pid.ki) /\ RLt(R(0), pid.kd)
    /\ \E s \in Sollwerte, i \in Istwerte :
           P9_PID_run(pidLast.pre, s, i).output # P9_PID_run(pid, s, i).output

(***************************************************************************)
(* PID controller, Zumtesten.py.  __init__ stores the parameters and calls *)
(* reset, which also sets integral_max; run limits the sum with np.clip    *)
(* and, with ki > 0, corrects the integral by (output - stellgroesse)/ki.  *)
(***************************************************************************)
\* reset()
ZT_PID_reset(p) ==
    [p EXCEPT !.fehler_vor = R(0), !.integral = R(0),
              !.integral_max =
                  RDiv(RAbs(RSub(p.output_max, p.output_min)), py_max(p.ki, EPS))]

\* PID(kp, ki, kd, dt, output_min, output_max)
ZT_PID_init(kp, ki, kd, dt, output_min, output_max) ==
    ZT_PID_reset([cls |-> "Zumtesten",
                  kp |-> kp, ki |-> ki, kd |-> kd, dt |-> dt,
                  output_min |-> output_min, output_max |-> output_max,
                  fehler_vor |-> R(0), integral |-> R(0), integral_max |-> R(0)])

\* the anti-windup step of run: the stored integral for the sum
\* stellgroesse, the emitted output and the clamped integral
ZT_anti_windup(p, stellgroesse, output, integral) ==
    IF RLt(R(0), p.ki) /\ output # stellgroesse
    THEN RSub(integral, RDiv(RSub(output, stellgroesse), p.ki))
    ELSE integral

\* run(sollwert, istwert)
ZT_PID_run(p, sollwert, istwert) ==
    LET fehler == RSub(sollwert, istwert)
        p_anteil == RMul(p.kp, fehler)
        integral == np_clip(RAdd(p.integral, RMul(fehler, p.dt)),
                            RNeg(p.integral_max), p.integral_max)
        i_anteil == RMul(p.ki, integral)
        d_anteil == RDiv(RMul(p.kd, RSub(fehler, p.fehler_vor)), p.dt)
        stellgroesse == RAdd(RAdd(p_anteil, i_anteil), d_anteil)
        output == np_clip(stellgroesse, p.output_min, p.output_max)
    IN  [obj |-> [p EXCEPT !.integral = ZT_anti_windup(p, stellgroesse, output, integral),
                           !.fehler_vor = fehler],
         output |-> output,
         fehler |-> fehler, p_anteil |-> p_anteil, integral |-> integral,
         i_anteil |-> i_anteil, d_anteil |-> d_anteil,
         stellgroesse |-> stellgroesse]

\* the controller of Zumtesten.py as a state machine
ZumtestenInit ==
    /\ pid \in { ZT_PID_init(kp, ki, kd, dt, b[1], b[2]) :
                   kp \in Kps, ki \in Kis, kd \in Kds, dt \in Dts, b \in OutputBounds }
    /\ pidLast = NoCall
    /\ pidCalls = 0
    /\ satN = NoSat
    /\ satPrev = NoSat
    /\ NoReaktor

ZumtestenRun(sollwert, istwert) ==
    /\ pidCalls < MaxCalls
    /\ \E r \in {ZT_PID_run(pid, sollwert, istwert)} :
           /\ pid' = r.obj
           /\ pidLast' = [op |-> "run", vorher |-> pidLast.op, pre |-> pid,
                          sollwert |-> sollwert, istwert |-> istwert,
                          output |-> r.output, fehler |-> r.fehler,
                          integral |-> r.integral, i_anteil |-> r.i_anteil,
                          d_anteil |-> r.d_anteil,
                          stellgroesse |-> r.stellgroesse]
    /\ pidCalls' = pidCalls + 1
    /\ UNCHANGED <<satN, satPrev>>
    /\ UNCHANGED rkVars

ZumtestenReset ==
    /\ pidCalls < MaxCalls
    /\ pid' = ZT_PID_reset(pid)
    /\ pidLast' = [NoCall EXCEPT !.op = "reset", !.vorher = pidLast.op, !.pre = pid]
    /\ pidCalls' = pidCalls + 1
    /\ UNCHANGED <<satN, satPrev>>
    /\ UNCHANGED rkVars

ZumtestenNext ==
    \/ \E s \in Sollwerte, i \in Istwerte : ZumtestenRun(s, i)
    \/ ZumtestenReset

SpecZumtesten == ZumtestenInit /\ [][ZumtestenNext]_vars

\* the last call was a run with ki > 0 and output_min <= output_max whose
\* sum was limited
ZumtestenBegrenzt ==
    /\ IsRun
    /\ RLt(R(0), pid.ki)
    /\ RLe(pid.output_min, pid.output_max)
    /\ pidLast.output # pidLast.stellgroesse

\* C25: in run of Zumtesten.py with ki > 0, when the sum is limited the
\* anti-windup step moves the integral against the saturation: the stored
\* integral is smaller than the clamped integral used in the sum when the sum
\* exceeds output_max, and larger when the sum is below output_min.
C25_AgainstSaturation ==
    ZumtestenBegrenzt =>
        /\ RLt(pid.output_max, pidLast.stellgroesse) => RLt(pid.integral, pidLast.integral)
        /\ RLt(pidLast.stellgroesse, pid.output_min) => RLt(pidLast.integral, pid.integral)

\* what the code does: the stored integral moves with the saturation, by
\* the excess of the sum divided by ki
ZumtestenWithSaturation ==
    ZumtestenBegrenzt =>
        /\ RLt(pid.output_max, pidLast.stellgroesse) =>
               pid.integral = RAdd(pidLast.integral,
                                   RDiv(RSub(pidLast.stellgroesse, pid.output_max), pid.ki))
        /\ RLt(pidLast.stellgroesse, pid.output_min) =>
               pid.integral = RSub(pidLast.integral,
                                   RDiv(RSub(pid.output_min, pidLast.stellgroesse), pid.ki))

\* a limited run above output_max, and one below output_min
ZumtestenBegrenztOben == ZumtestenBegrenzt /\ RLt(pid.output_max, pidLast.stellgroesse)
ZumtestenBegrenztUnten == ZumtestenBegrenzt /\ RLt(pidLast.stellgroesse, pid.output_min)

(***************************************************************************)
(* reset of Projekt9.py and the internal heat-transfer coefficient.        *)
(***************************************************************************)
\* reset has returned on a Projekt9 object
P9ResetReturned == IsReaktorReset /\ rk.cls = "Projekt9" /\ ~rkLast.raised

\* C26: after reset of Projekt9.py, with or without an explicit value, the
\* fluid properties and h_int both correspond to the new t_ist, so that
\* t_verlust() called directly after reset uses the coefficient of the reset
\* temperature.
C26_ResetRefreshesHInt ==
    P9ResetReturned =>
        /\ \E w \in {P9_update_stoffwerte(rk.t_ist)} :
               /\ ~w.raises
               /\ rk.spez_c = w.spez_c /\ rk.dichte = w.dichte
               /\ rk.k = w.k /\ rk.mu = w.mu
        /\ rk.h_int = P9_berech_h_int(rk)
        /\ P9_t_verlust(rk) = P9_t_verlust(P9_mit_h_int(rk))

\* what the code does: the fluid properties are those of the new t_ist, and
\* h_int is the coefficient the object had before the call
ResetKeepsHInt ==
    P9ResetReturned =>
        /\ \E w \in {P9_update_stoffwerte(rk.t_ist)} :
               /\ ~w.raises
               /\ rk.spez_c = w.spez_c /\ rk.dichte = w.dichte
               /\ rk.k = w.k /\ rk.mu = w.mu
        /\ rk.h_int = rkLast.pre.h_int

\* t_verlust() called directly after a reset returns a heat loss computed
\* with the coefficient of the temperature before the reset
VerlustMitAltemHInt ==
    /\ rkLast.op = "verlust"
    /\ rk.cls = "Projekt9"
    /\ rk.h_int # P9_berech_h_int(rk)
    /\ rkLast.result # P9_t_verlust(P9_mit_h_int(rk))

(***************************************************************************)
(* geometrie_daten of Projekt9.py as a function of the settings of the     *)
(* sidebar: reaktor_vol in L, wand_stk in mm; lengths in mm, so that a     *)
(* volume computed from them is in mm^3 (10^6 mm^3 = 1 L).                 *)
(***************************************************************************)
Reaktorvolumina == 1..20
Wandstaerken == 1..20

GeometrieInit ==
    /\ NoPID
    /\ rk = [cls |-> "none"]
    /\ rkLast = [op |-> "none"]
    /\ rkCalls = 0
    /\ coolprop = "none"

\* self.geometrie_daten(reaktor_vol, wand_stk)
Geometrie(reaktor_vol, wand_stk) ==
    /\ rkLast.op = "none"
    /\ rkLast' = [op |-> "geometrie", reaktor_vol |-> reaktor_vol, wand_stk |-> wand_stk,
                  g |-> P9_geometrie_daten(reaktor_vol, wand_stk)]
    /\ UNCHANGED <<rk, rkCalls, coolprop>>
    /\ UNCHANGED pidVars

GeometrieNext ==
    \E reaktor_vol \in Reaktorvolumina, wand_stk \in Wandstaerken :
        Geometrie(reaktor_vol, wand_stk)

SpecGeometrie == GeometrieInit /\ [][GeometrieNext]_vars

IsGeometrie == rkLast.op = "geometrie"

\* pi * r_i^2 * h_i of the computed geometry, in mm^3
ZylinderVolumen == MulDiv(rkLast.g.r_i * rkLast.g.r_i * rkLast.g.h_i, PI, 10^6)

\* two volumes in mm^3 that agree within 5 per cent, the effect of the radius
\* rounded to a millimetre
Gleich5(a, b) == 20 * Abs(a - b) <= b

\* C27: for every reaktor_vol > 0 the cylinder with the computed radius r_i
\* and height h_i = 4*r_i has the volume pi*r_i^2*h_i = reaktor_vol.
C27_GeometryConsistent ==
    IsGeometrie =>
        /\ rkLast.g.h_i = 4 * rkLast.g.r_i
        /\ Gleich5(ZylinderVolumen, rkLast.reaktor_vol * 10^6)

\* what the code computes: r_i^3 = (reaktor_vol/2)*pi, a cylinder of
\* 2*pi^2 (about 19.7) times the configured volume
GeometryOfCode ==
    IsGeometrie =>
        /\ rkLast.g.h_i = 4 * rkLast.g.r_i
        /\ Gleich5(ZylinderVolumen,
                   MulDiv(MulDiv(2 * rkLast.reaktor_vol * 10^6, PI, 10^6), PI, 10^6))

\* the geometry of the default volume of the sidebar, 5 L
GeometrieStandard == IsGeometrie /\ rkLast.reaktor_vol = 5 /\ rkLast.wand_stk = 5

(***************************************************************************)
(* The simulation loop of Testprojekt.py.  rk holds the two reactors, pid  *)
(* the controller, and rkLast the settings of the sidebar (e), the number  *)
(* of ticks n_steps, the loop index i, the lists the loop appends to, the  *)
(* power the controlled reactor applied in the last tick (angewandt) and   *)
(* the number of ticks in which the disturbance was added (stoerungen).    *)
(* One action is one pass through the body of the loop.                    *)
(***************************************************************************)
\* the scenario of the 60-minute run with the default settings
Szenario ==
    [volumen |-> 10, start_temp |-> 20, umg_temp |-> 20, wand |-> <<"stahl", 5>>,
     rpm |-> 100, soll_temp |-> 37, simdauer |-> 60, dt |-> 5,
     kp |-> R(50), ki |-> R(1), kd |-> R(5),
     add_disturbance |-> FALSE, stoerung_zeit |-> 0, stoerung_groesse |-> 0]

\* runs with the disturbance switched on: the time steps, and the
\* disturbance times the slider offers for a duration of 11 minutes
Stoerzeitschritte == {5, 7, 8, 16, 24, 30}
Stoerdauer == 11
Stoerzeiten == 5..(Stoerdauer - 5)

TPEinstellungen ==
    {Szenario} \cup
    { [Szenario EXCEPT !.soll_temp = 60, !.simdauer = Stoerdauer, !.dt = dt, !.kd = R(0),
                       !.add_disturbance = TRUE, !.stoerung_zeit = z,
                       !.stoerung_groesse = -5] :
        dt \in Stoerzeitschritte, z \in Stoerzeiten }

\* abs(t_min - stoerung_zeit) < dt/120 with t_min = i*dt/60: the possible
\* results.  When the two sides are equal as real numbers the rounding of
\* the floating-point quotients decides the comparison.
TP_stoerung_jetzt(e, i) ==
    IF ~e.add_disturbance THEN {FALSE}
    ELSE IF Abs(2 * i * e.dt - 120 * e.stoerung_zeit) < e.dt THEN {TRUE}
    ELSE IF Abs(2 * i * e.dt - 120 * e.stoerung_zeit) = e.dt THEN BOOLEAN
    ELSE {FALSE}

\* reaktor.ist_temp += stoerung_groesse, when the disturbance is added
TP_gestoert(reaktor, e, stoerung) ==
    IF stoerung THEN [reaktor EXCEPT !.ist_temp = reaktor.ist_temp + DegC(e.stoerung_groesse)]
    ELSE reaktor

\* the three constructor calls and n_steps
TPKonstruktion(e) ==
    /\ rkLast.op = "none"
    /\ \E b \in {TP_Bioreaktor_init(e.volumen, DegC(e.start_temp), DegC(e.umg_temp),
                                    e.rpm, e.wand[1], e.wand[2])},
          c \in {TP_PID_init(e.kp, e.ki, e.kd, R(e.dt), R(-2000), R(5000))} :
           /\ ~b.raised /\ ~c.raised
           /\ rk' = [cls |-> "testprojekt", reaktor_pid |-> b.obj,
                     reaktor_ungeregelt |-> b.obj]
           /\ pid' = c.obj
    /\ rkLast' = [op |-> "testprojekt", pc |-> "startwerte", e |-> e,
                  n_steps |-> (e.simdauer * 60) \div e.dt, i |-> 0,
                  angewandt |-> 0, stoerungen |-> 0,
                  temps_pid |-> <<>>, temps_offen |-> <<>>, leistungen |-> <<>>,
                  sollwerte |-> <<>>]
    /\ UNCHANGED <<pidLast, pidCalls, satN, satPrev, rkCalls, coolprop>>

\* reaktor_pid.reset(start_temp); pid.reset(); reaktor_ungeregelt.reset(start_temp)
TPStartwerte ==
    /\ rkLast.op = "testprojekt"
    /\ rkLast.pc = "startwerte"
    /\ \E a \in {TP_Bioreaktor_reset(rk.reaktor_pid, Some(DegC(rkLast.e.start_temp)))},
          b \in {TP_Bioreaktor_reset(rk.reaktor_ungeregelt, Some(DegC(rkLast.e.start_temp)))} :
           rk' = [rk EXCEPT !.reaktor_pid = a.obj, !.reaktor_ungeregelt = b.obj]
    /\ pid' = TP_PID_reset(pid)
    /\ pidLast' = [op |-> "reset", tick |-> -1]
    /\ rkLast' = [rkLast EXCEPT !.pc = IF rkLast.n_steps = 0 THEN "fertig" ELSE "tick"]
    /\ UNCHANGED <<pidCalls, satN, satPrev, rkCalls, coolprop>>

\* one pass through the body of the loop
TPTick ==
    /\ rkLast.op = "testprojekt"
    /\ rkLast.pc = "tick"
    /\ \E stoerung \in TP_stoerung_jetzt(rkLast.e, rkLast.i) :
       \E a \in {TP_gestoert(rk.reaktor_pid, rkLast.e, stoerung)},
          b \in {TP_gestoert(rk.reaktor_ungeregelt, rkLast.e, stoerung)} :
       \E r \in {TP_PID_run(pid, R(rkLast.e.soll_temp), Q(a.ist_temp, TS))} :
       \E ua \in {TP_update_temperature(a, Schleife_leistung(r.output), rkLast.e.dt)},
          ub \in {TP_update_temperature(b, 0, rkLast.e.dt)} :
           /\ pid' = r.obj
           /\ pidLast' = [op |-> "run", tick |-> rkLast.i,
                          sollwert |-> R(rkLast.e.soll_temp),
                          istwert |-> Q(a.ist_temp, TS), output |-> r.output]
           /\ rk' = [rk EXCEPT !.reaktor_pid = ua.obj, !.reaktor_ungeregelt = ub.obj]
           /\ rkLast' = [rkLast EXCEPT
                             !.pc = IF rkLast.i + 1 = rkLast.n_steps THEN "fertig" ELSE "tick",
                             !.i = rkLast.i + 1,
                             !.angewandt = ua.leistung,
                             !.stoerungen = rkLast.stoerungen + (IF stoerung THEN 1 ELSE 0),
                             !.temps_pid = Append(rkLast.temps_pid, ua.result),
                             !.temps_offen = Append(rkLast.temps_offen, ub.result),
                             !.leistungen = Append(rkLast.leistungen, r.output),
                             !.sollwerte = Append(rkLast.sollwerte, rkLast.e.soll_temp)]
    /\ pidCalls' = pidCalls + 1
    /\ rkCalls' = rkCalls + 2
    /\ UNCHANGED <<satN, satPrev, coolprop>>

TestprojektNext ==
    \/ \E e \in TPEinstellungen : TPKonstruktion(e)
    \/ TPStartwerte
    \/ TPTick

SpecTestprojekt == SchleifeInit /\ [][TestprojektNext]_vars

IsTestprojekt == rkLast.op = "testprojekt"

\* C29: with add_disturbance set, for every time step, duration and
\* disturbance time of the sliders, the disturbance offset is added to both
\* reactors' temperatures in exactly one tick of the run.
C29_DisturbanceOnce ==
    (IsTestprojekt /\ rkLast.e.add_disturbance /\ rkLast.pc = "fertig")
        => rkLast.stoerungen = 1

\* some tick of the run lies exactly half a time step from the disturbance time
Gleichstand(e) == (120 * e.stoerung_zeit) % (2 * e.dt) = e.dt

\* the runs without such a tick add the disturbance exactly once
DisturbanceOnceOhneGleichstand ==
    (IsTestprojekt /\ rkLast.e.add_disturbance /\ rkLast.pc = "fertig"
                   /\ ~Gleichstand(rkLast.e))
        => rkLast.stoerungen = 1

\* a finished run with dt = 24 s in which the disturbance was never added
StoerungNie ==
    /\ IsTestprojekt /\ rkLast.e.add_disturbance /\ rkLast.pc = "fertig"
    /\ rkLast.e.dt = 24
    /\ rkLast.stoerungen = 0

\* a finished run in which the disturbance was added once, visible in the
\* trajectory of the uncontrolled reactor
StoerungEinmal ==
    /\ IsTestprojekt /\ rkLast.e.add_disturbance /\ rkLast.pc = "fertig"
    /\ ~Gleichstand(rkLast.e)
    /\ rkLast.stoerungen = 1
    /\ \E n \in 1..Len(rkLast.temps_offen) : rkLast.temps_offen[n] < DegC(16)

\* the run of the scenario, and the controlled temperature recorded in tick n
\* (the start temperature for n = 0)
ImSzenario == IsTestprojekt /\ rkLast.e = Szenario
TempPid(n) == IF n = 0 THEN DegC(rkLast.e.start_temp) ELSE rkLast.temps_pid[n]

\* C24: in the scenario (10 L, 20 degC, 100 1/min, steel wall of 5 mm,
\* kp = 50, ki = 1, kd = 5, dt = 5, bounds [-2000, 5000], setpoint 37, 720
\* ticks) the controlled temperature is non-decreasing over the first 240
\* ticks and within 1 degree of 37 at the last tick.
C24_ScenarioTrajectory ==
    ImSzenario =>
        /\ (rkLast.i >= 1 /\ rkLast.i <= 240) => TempPid(rkLast.i - 1) <= TempPid(rkLast.i)
        /\ rkLast.pc = "fertig" =>
               /\ rkLast.i = 720
               /\ Abs(TempPid(720) - DegC(37)) <= DegC(1)

\* what the code does in the scenario: the temperature rises through the
\* setpoint while the integral is still charged, and falls again within the
\* first 240 ticks
SzenarioUeberschwingt ==
    /\ ImSzenario
    /\ rkLast.i >= 2 /\ rkLast.i <= 240
    /\ TempPid(rkLast.i) < TempPid(rkLast.i - 1)
    /\ TempPid(rkLast.i) > DegC(38)

\* the end of the run of the scenario
SzenarioFertig == ImSzenario /\ rkLast.pc = "fertig" /\ rkLast.i = 720

\* the second half of C24 alone: the run of the scenario ends within 1 degree
\* of the setpoint
SzenarioEndeNahe ==
    (ImSzenario /\ rkLast.pc = "fertig") => Abs(TempPid(720) - DegC(37)) <= DegC(1)

\* a finished run in which the disturbance was added in two ticks
StoerungZweimal ==
    /\ IsTestprojekt /\ rkLast.e.add_disturbance /\ rkLast.pc = "fertig"
    /\ rkLast.stoerungen = 2

(***************************************************************************)
(* The uncontrolled reactor of the loop of Projekt9.py.                    *)
(***************************************************************************)
\* the temperature of the uncontrolled reactor recorded in tick n (the start
\* temperature for n = 0) and its distance from the ambient temperature
TempOffen(n) == IF n = 0 THEN DegC(rkLast.e.t_start) ELSE rkLast.temps_offen[n]
AbstandOffen(n) == Abs(TempOffen(n) - DegC(rkLast.e.t_umgebung))

\* C22: in the uncontrolled run (update_temperatur(0, dt) in every tick) the
\* temperature converges toward ambient: |t_ist - t_umgebung| never increases
\* from one tick to the next, for the start temperatures, ambient
\* temperatures and time steps of the run.
C22_UncontrolledConverges ==
    IsSchleife =>
        /\ \A n \in 1..Len(rkLast.temps_offen) :
               /\ AbstandOffen(n) <= AbstandOffen(n - 1)
               /\ (TempOffen(n - 1) >= DegC(rkLast.e.t_umgebung)
                      => TempOffen(n) >= DegC(rkLast.e.t_umgebung))
               /\ (TempOffen(n - 1) <= DegC(rkLast.e.t_umgebung)
                      => TempOffen(n) <= DegC(rkLast.e.t_umgebung))
        /\ rkLast.pc = "run" =>
               rk.reaktor_ungeregelt.t_ist = TempOffen(Len(rkLast.temps_offen))

\* two ticks of a run that started 35 degrees below ambient with dt = 30 s:
\* the uncontrolled temperature came closer to ambient in both
C22_Witness ==
    /\ IsSchleife
    /\ Len(rkLast.temps_offen) = 2
    /\ rkLast.e.t_start = 5 /\ rkLast.e.t_umgebung = 40 /\ rkLast.e.dt = 30
    /\ AbstandOffen(2) < AbstandOffen(1)
    /\ AbstandOffen(1) < AbstandOffen(0)

\* the same for a run that started above ambient
C22_WitnessAbkuehlung ==
    /\ IsSchleife
    /\ Len(rkLast.temps_offen) = 2
    /\ rkLast.e.t_start = 40 /\ rkLast.e.t_umgebung = 5
    /\ TempOffen(2) < TempOffen(1)
    /\ TempOffen(1) < TempOffen(0)

\* the uncontrolled reactor of a run after n ticks, computed from the reactor
\* settings and the time step alone
OffenReaktor(e, n) ==
    LET nach[k \in 0..n] ==
            IF k = 0
            THEN P9_Bioreaktor_reset(
                     P9_Bioreaktor_init(e.reaktor_vol, DegC(e.t_start), DegC(e.t_umgebung),
                                        e.drehz, e.wand[1], e.wand[2]).obj,
                     Some(DegC(e.t_start))).obj
            ELSE P9_update_temperatur(nach[k - 1], 0, e.dt).obj
    IN  nach[n]

\* the settings with the setpoint and the gains of the controller blanked
OhneRegler(e) == [e EXCEPT !.soll_temp = 0, !.kp = R(0), !.ki = R(0), !.kd = R(0)]

\* C30: the recorded trajectory of the uncontrolled reactor (temps_offen) is
\* the same in any two runs that differ only in the setpoint and the gains:
\* it is determined by the reactor settings and the time step, and neither
\* the controller's state nor the setpoint influences the baseline reactor.
C30_BaselineIndependent ==
    IsSchleife =>
        /\ \A n \in 1..Len(rkLast.temps_offen) :
               rkLast.temps_offen[n] = OffenReaktor(OhneRegler(rkLast.e), n).t_ist
        /\ rkLast.pc = "run" =>
               rk.reaktor_ungeregelt = OffenReaktor(OhneRegler(rkLast.e), rkLast.i)

\* the end of the second tick of a run with setpoint 25 and kd = 5 in which
\* the controller has moved the controlled reactor away from the baseline
C30_Witness ==
    /\ IsSchleife
    /\ rkLast.pc = "run"
    /\ rkLast.i = 2
    /\ rkLast.e.soll_temp = 25 /\ rkLast.e.kd = R(5)
    /\ rkLast.e.t_start # rkLast.e.t_umgebung
    /\ rkLast.temps_pid[2] # rkLast.temps_offen[2]
    /\ rkLast.temps_offen[2] # rkLast.temps_offen[1]
    /\ pid.integral # R(0)

(***************************************************************************)
(* The two simulation loops side by side: a run is a run of the loop of    *)
(* Projekt9.py or a run of the loop of Testprojekt.py.                     *)
(***************************************************************************)
SchleifenNext ==
    \/ SchleifeNext
    \/ TestprojektNext

SpecSchleifen == SchleifeInit /\ [][SchleifenNext]_vars

\* the actuator limits of the controlled reactor, in W
MinLeistung ==
    IF rk.cls = "schleife" THEN Q(rk.reaktor_pid.min_leistung, 1000)
    ELSE Q(rk.reaktor_pid.min_heizleistung, 1000)
MaxLeistung ==
    IF rk.cls = "schleife" THEN Q(rk.reaktor_pid.max_leistung, 1000)
    ELSE Q(rk.reaktor_pid.max_heizleistung, 1000)

\* the power the controlled reactor applied in its last update, in mW
Angewandt ==
    IF rk.cls = "schleife" THEN P9_leistung(rk.reaktor_pid, rkLast.leistung)
    ELSE rkLast.angewandt

\* the controlled reactor has been updated with the last recorded power
LeistungGespeichert ==
    /\ IsSchleife \/ IsTestprojekt
    /\ Len(rkLast.leistungen) >= 1
    /\ IsSchleife => rkLast.pc = "run"

\* C21: in both loops every value recorded in leistungen lies within the
\* controlled reactor's actuator limits [min power, max power], so that the
\* recorded power is the power the reactor update applied.
C21_PowerTraceInLimits ==
    (IsSchleife \/ IsTestprojekt) =>
        /\ \A n \in 1..Len(rkLast.leistungen) :
               /\ RLe(MinLeistung, rkLast.leistungen[n])
               /\ RLe(rkLast.leistungen[n], MaxLeistung)
        /\ LeistungGespeichert =>
               Angewandt = Schleife_leistung(rkLast.leistungen[Len(rkLast.leistungen)])

\* a run of Projekt9.py whose controller was limited at output_max = 2000, the
\* reactor's maximum
C21_Witness ==
    /\ IsSchleife /\ LeistungGespeichert
    /\ rkLast.leistungen[Len(rkLast.leistungen)] = R(2000)
    /\ Angewandt = Watt(2000)

\* a run of Testprojekt.py whose controller was limited at output_max = 5000
C21_WitnessTestprojekt ==
    /\ IsTestprojekt /\ LeistungGespeichert
    /\ rkLast.leistungen[Len(rkLast.leistungen)] = R(5000)
    /\ Angewandt = Watt(5000)

\* a run whose controller was limited at output_min
C21_WitnessKuehlung ==
    /\ IsSchleife /\ LeistungGespeichert
    /\ rkLast.leistungen[Len(rkLast.leistungen)] = R(-1000)
    /\ Angewandt = Watt(-1000)

====
